---- MODULE Spec2Model ----
(***************************************************************************)
(* A state-machine model of Biofilter / LOKI                               *)
(* (src/biofilter/biofilter.py, src/src/loki/loki_db.py).                  *)
(*                                                                         *)
(* The module holds one specification per subsystem; all of them share the *)
(* variables below and each one keeps the variables of the other           *)
(* subsystems at their initial value.                                      *)
(*   SpecAudit   schema audit of an attached knowledge database file       *)
(*   SpecFilter  the user-input filter tables, their union and intersect   *)
(*               operations and the region zone index                      *)
(*   SpecLift    liftOver of a stream of regions through the chain table   *)
(*   SpecLiftChains  the same over chains with gaps and a chain cut short  *)
(*   SpecMerge   resolution of merged RS numbers through snp_merge         *)
(*   SpecMergeChain  the same over a merge history of two steps            *)
(*   SpecPlanner the query planner: buildQuery and getQueryText            *)
(*   SpecPlannerColumns  filter queries for gene, position and id columns  *)
(*   SpecOutput  the output generators over the results of their queries   *)
(*   SpecDatabase  finalizing and updating an attached knowledge file      *)
(*   SpecAttach  attaching a knowledge file of any content                 *)
(*   SpecInput   SNP, position and region input as it is read, its         *)
(*               liftOver, and the lookup of metadata names                *)
(***************************************************************************)
EXTENDS Integers, Sequences, FiniteSets, TLC

VARIABLES
    dbMaster,   \* sqlite_master and table contents of the attached `db`
    audit,      \* the most recent auditDatabaseObjects call and its result
    snp_merge,              \* `db`.`snp_merge` rows <<rsMerged, rsCurrent>>
    allow_ambiguous_snps,   \* option ALLOW_AMBIGUOUS_SNPS
    snp,                    \* `main`.`snp` rows
    region,                 \* `main`.`region` rows
    region_zone,            \* `main`.`region_zone` rows <<region_rowid, chr, zone>>
    _inputFilters,          \* Biofilter._inputFilters['main']
    _tablesDeindexed,       \* Biofilter._tablesDeindexed['main']
    sqlite_sequence,        \* last AUTOINCREMENT rowid handed out per table
    lastCall,               \* the most recent filter operation
    liftChains,     \* `db`.`chain` joined with `db`.`chain_data`, one conversion
    python,         \* major version of the interpreter running the code
    liftOpts,       \* which of tally and errorCallback the caller passed
    liftRegions,    \* the input regions consumed so far
    liftYielded,    \* the mapped regions yielded so far
    liftErrors,     \* the regions handed to errorCallback so far
    numLift,        \* generateLiftOverRegions.numLift
    numNull,        \* generateLiftOverRegions.numNull
    tally,          \* the caller's tally dict
    liftStatus,     \* "running", "exhausted", or the exception that ended it
    liftLast,       \* how the most recent region was processed
    currentRS,      \* the most recent generateCurrentRSesByRSes call
    inputTables,    \* the (db, table) of Biofilter._inputFilters that hold rows
    _options,       \* Biofilter._options, the part the planner reads
    query,          \* the outcome of the most recent buildQuery call
    queryText,      \* getQueryText of that query
    numQueries,     \* buildQuery calls of the session so far
    generated,      \* the output generator call of the session and what it gave
    loki,           \* the Database instance, the settings and intermediate
                    \* tables of its file, and its most recent call
    input           \* `main`.`locus` and `main`.`region`, the connection's
                    \* last_insert_rowid, and the most recent input call

auditVars == <<dbMaster, audit>>

filterVars == <<snp_merge, allow_ambiguous_snps, snp, region, region_zone,
                _inputFilters, _tablesDeindexed, sqlite_sequence, lastCall>>

liftVars == <<liftChains, python, liftOpts, liftRegions, liftYielded,
              liftErrors, numLift, numNull, tally, liftStatus, liftLast>>

plannerVars == <<inputTables, _options, query, queryText, numQueries>>

vars == <<auditVars, filterVars, liftVars, currentRS, plannerVars, generated, loki, input>>

\* what the operations of one subsystem leave alone
notAuditVars == <<filterVars, liftVars, currentRS, plannerVars, generated, loki, input>>

notFilterVars == <<auditVars, liftVars, currentRS, plannerVars, generated, loki, input>>

notLiftVars == <<auditVars, filterVars, currentRS, plannerVars, generated, loki, input>>

notMergeVars == <<auditVars, filterVars, liftVars, plannerVars, generated, loki, input>>

notPlannerVars == <<auditVars, filterVars, liftVars, currentRS, generated, loki, input>>

notOutputVars == <<auditVars, filterVars, liftVars, currentRS, plannerVars, loki, input>>

notDatabaseVars == <<filterVars, liftVars, currentRS, plannerVars, generated, input>>

notInputVars == <<auditVars, filterVars, liftVars, currentRS, plannerVars, generated, loki>>

(***************************************************************************)
(* Bounds                                                                  *)
(***************************************************************************)
MaxRowKey == 2      \* rows a loader has added to a table: keys 1..MaxRowKey
MaxRS == 4          \* RS numbers 1..MaxRS
MaxSnps == 3        \* SNPs in one input list
MaxRegions == 2     \* regions in one input list
MaxOps == 2         \* union/intersect calls per filter kind

(***************************************************************************)
(* Schema audit (loki_db.py)                                               *)
(***************************************************************************)

\* Python's None
None == <<>>

\* whitespace characters recognised by str.strip() / str.split()
Whitespace == {" ", "\n", "\t"}

RECURSIVE SplitWords(_, _, _, _)
\* str.strip().split(): the maximal runs of non-whitespace of s, in order
SplitWords(s, i, word, acc) ==
    IF i > Len(s)
    THEN IF word = <<>> THEN acc ELSE Append(acc, word)
    ELSE IF s[i] \in Whitespace
         THEN SplitWords(s, i + 1, <<>>,
                         IF word = <<>> THEN acc ELSE Append(acc, word))
         ELSE SplitWords(s, i + 1, Append(word, s[i]), acc)

RECURSIVE JoinWords(_)
\* " ".join(words)
JoinWords(words) ==
    IF words = <<>> THEN <<>>
    ELSE IF Len(words) = 1 THEN words[1]
         ELSE words[1] \o <<" ">> \o JoinWords(Tail(words))

\* " ".join(objDef.strip().split())
NormaliseDef(s) == JoinWords(SplitWords(s, 1, <<>>, <<>>))

\* the part of Database._schema['db'] that the model keeps: a table with
\* seed rows and no index, and a table with an index and no seed rows
_schema ==
    [ setting   |-> [ table |-> <<"\n", "(", "\n", " ", " ", "setting", " ",
                                  "value", "\n", ")", "\n">>,
                      data  |-> {0},
                      index |-> [i \in {} |-> <<>>] ],
      snp_merge |-> [ table |-> <<"\n", "(", "\n", " ", " ", "rsMerged", ",",
                                  "\n", " ", " ", "rsCurrent", "\n", ")",
                                  "\n">>,
                      data  |-> {},
                      index |-> [i \in {"snp_merge__merge_current"} |->
                                    <<"(", "rsMerged", ",", "rsCurrent", ")">>] ] ]

TblNames == DOMAIN _schema

IdxNames(t) == DOMAIN _schema[t].index

\* an object without a row in sqlite_master
NoObj == <<>>

\* the text sqlite_master keeps for CREATE TABLE `db`.`t` <body>
CreateTableStmt(t, body) == <<"CREATE", " ", "TABLE", " ", t, " ">> \o body

\* the text sqlite_master keeps for CREATE INDEX `db`.`i` ON `t` <body>
CreateIndexStmt(i, t, body) ==
    <<"CREATE", " ", "INDEX", " ", i, " ", "ON", " ", t, " ">> \o body

\* row contents of a table in an attached file: the rows added by loaders
\* (keys 1..k) together with any of the seed rows of the schema (key 0)
StoredRows(t) ==
    { (1 .. k) \cup seed : k \in 0 .. MaxRowKey, seed \in SUBSET _schema[t].data }

\* a table that does not exist
NoTable(t) == [sql |-> NoObj, rows |-> {}, index |-> [i \in IdxNames(t) |-> NoObj]]

\* createDatabaseObjects restricted to one table of tblList
CreateObjectsOf(t, tbl, doTables, idxList, doIndecies) ==
    LET made == IF ~doTables THEN tbl
                ELSE IF tbl.sql = NoObj
                     THEN [sql   |-> CreateTableStmt(t, _schema[t].table),
                           rows  |-> _schema[t].data,
                           index |-> [i \in IdxNames(t) |-> NoObj]]
                     ELSE [tbl EXCEPT !.rows = tbl.rows \cup _schema[t].data]
    IN  IF doIndecies /\ made.sql # NoObj
        THEN [made EXCEPT !.index =
                 [i \in IdxNames(t) |->
                     IF i \in idxList /\ made.index[i] = NoObj
                     THEN CreateIndexStmt(i, t, _schema[t].index[i])
                     ELSE made.index[i]]]
        ELSE made

\* dropDatabaseObjects restricted to one table of tblList
DropObjectsOf(t, tbl, doTables, idxList, doIndecies) ==
    IF doTables THEN NoTable(t)
    ELSE IF doIndecies
         THEN [tbl EXCEPT !.index =
                  [i \in IdxNames(t) |->
                      IF i \in idxList THEN NoObj ELSE tbl.index[i]]]
         ELSE tbl

createDatabaseTables(t, tbl, doIndecies) ==
    CreateObjectsOf(t, tbl, TRUE, IdxNames(t), doIndecies)

createDatabaseIndices(t, tbl, doTables, idxList) ==
    CreateObjectsOf(t, tbl, doTables, idxList, TRUE)

dropDatabaseTables(t, tbl) == DropObjectsOf(t, tbl, TRUE, IdxNames(t), TRUE)

dropDatabaseIndices(t, tbl, idxList) == DropObjectsOf(t, tbl, FALSE, idxList, TRUE)

\* a variant of the emptiness probe that takes every table for empty
TblEmptyAlways(tbl) == TRUE

\* tblEmpty[tblName]: SELECT 1 FROM tbl LIMIT 1 returned no row
TblEmpty(tbl) == tbl.rows = {}

\* current[tblName]['table'] equals the declared definition
TableMatches(t, tbl) ==
    NormaliseDef(tbl.sql) = CreateTableStmt(t, NormaliseDef(_schema[t].table))

\* current[tblName]['index'][idxName] equals the declared definition
IndexMatches(i, t, sql) ==
    NormaliseDef(sql) = CreateIndexStmt(i, t, NormaliseDef(_schema[t].index[i]))

\* the table branch of the audit loop for table t; `index` is what
\* current[tblName]['index'] holds when the branch is left
AuditTableStep(t, tbl, doTables, doIndecies, doRepair) ==
    IF ~doTables THEN [tbl |-> tbl, ok |-> TRUE, index |-> tbl.index]
    ELSE IF tbl.sql # NoObj
    THEN IF TableMatches(t, tbl)
         THEN [tbl   |-> [tbl EXCEPT !.rows = tbl.rows \cup _schema[t].data],
               ok    |-> TRUE,
               index |-> tbl.index]
         ELSE IF doRepair /\ TblEmpty(tbl)
         THEN [tbl   |-> createDatabaseTables(t, dropDatabaseTables(t, tbl), FALSE),
               ok    |-> TRUE,
               index |-> [i \in IdxNames(t) |-> NoObj]]
         ELSE [tbl |-> tbl, ok |-> FALSE, index |-> tbl.index]
    ELSE IF doRepair
         THEN [tbl   |-> createDatabaseTables(t, tbl, doIndecies),
               ok    |-> TRUE,
               index |-> tbl.index]
         ELSE [tbl |-> tbl, ok |-> FALSE, index |-> tbl.index]

\* the index branch of the audit loop for index i of table t; `inCurrent`
\* says whether the table was listed in sqlite_master when the audit began
AuditIndexStep(i, t, tbl, inCurrent, curIndex, doTables, doRepair) ==
    IF ~inCurrent /\ ~(doTables /\ doRepair)
    THEN [sql |-> tbl.index[i], ok |-> FALSE]
    ELSE IF inCurrent /\ curIndex[i] # NoObj
    THEN IF IndexMatches(i, t, curIndex[i])
         THEN [sql |-> tbl.index[i], ok |-> TRUE]
         ELSE IF doRepair
         THEN [sql |-> createDatabaseIndices(t, dropDatabaseIndices(t, tbl, {i}),
                                             FALSE, {i}).index[i],
               ok  |-> TRUE]
         ELSE [sql |-> tbl.index[i], ok |-> FALSE]
    ELSE IF doRepair
         THEN [sql |-> createDatabaseIndices(t, tbl, FALSE, {i}).index[i],
               ok  |-> TRUE]
         ELSE [sql |-> tbl.index[i], ok |-> FALSE]

\* one pass of the audit loop for table t
AuditTable(t, tbl, doTables, doIndecies, doRepair) ==
    LET ts == AuditTableStep(t, tbl, doTables, doIndecies, doRepair)
        is == [i \in IdxNames(t) |->
                  AuditIndexStep(i, t, ts.tbl, tbl.sql # NoObj, ts.index,
                                 doTables, doRepair)]
    IN  IF doIndecies
        THEN [tbl |-> [ts.tbl EXCEPT !.index = [i \in IdxNames(t) |-> is[i].sql]],
              ok  |-> ts.ok /\ \A i \in IdxNames(t) : is[i].ok]
        ELSE [tbl |-> ts.tbl, ok |-> ts.ok]

\* for tblName in (tblList or schema.keys())
AuditedTables(tblList) == IF tblList = {} THEN TblNames ELSE tblList

\* Database.auditDatabaseObjects(None, 'db', tblList, doTables, None,
\* doIndecies, doRepair)
auditDatabaseObjects(tblList, doTables, doIndecies, doRepair) ==
    LET res == [t \in TblNames |->
                   IF t \in AuditedTables(tblList)
                   THEN AuditTable(t, dbMaster[t], doTables, doIndecies, doRepair)
                   ELSE [tbl |-> dbMaster[t], ok |-> TRUE]]
    IN  /\ dbMaster' = [t \in TblNames |-> res[t].tbl]
        /\ audit' = [called     |-> TRUE,
                     pre        |-> dbMaster,
                     tblList    |-> tblList,
                     doTables   |-> doTables,
                     doIndecies |-> doIndecies,
                     doRepair   |-> doRepair,
                     ok         |-> \A t \in TblNames : res[t].ok]
        /\ UNCHANGED notAuditVars

\* table definitions an attached file may carry: written from this schema,
\* written with other whitespace, or written from another column list
StoredTableDefs(t) ==
    { CreateTableStmt(t, _schema[t].table),
      CreateTableStmt(t, NormaliseDef(_schema[t].table)),
      CreateTableStmt(t, <<"(", "legacy", ")">>) }

\* index definitions an attached file may carry
StoredIndexDefs(i, t) ==
    { NoObj,
      CreateIndexStmt(i, t, _schema[t].index[i]),
      CreateIndexStmt(i, t, <<"(", "rsMerged", ")">>) }

\* the states of table t in an attached file
TableStates(t) ==
    {NoTable(t)} \cup
    { [sql |-> s, rows |-> r, index |-> ix] :
        s \in StoredTableDefs(t), r \in StoredRows(t),
        ix \in [IdxNames(t) -> UNION {StoredIndexDefs(i, t) : i \in IdxNames(t)}] }

\* the contents of an attached database file
DbFiles ==
    { f \in [TblNames -> UNION {TableStates(t) : t \in TblNames}] :
        \A t \in TblNames : f[t] \in TableStates(t) }

InitAudit ==
    /\ dbMaster \in DbFiles
    /\ audit = [called |-> FALSE, pre |-> dbMaster, tblList |-> {},
                doTables |-> TRUE, doIndecies |-> TRUE, doRepair |-> TRUE,
                ok |-> TRUE]

NextAudit ==
    \E tblList \in {{}} \cup {{t} : t \in TblNames}, doTables \in BOOLEAN,
       doIndecies \in BOOLEAN, doRepair \in BOOLEAN :
        auditDatabaseObjects(tblList, doTables, doIndecies, doRepair)

\* table t held a row and a definition other than the declared one when the
\* most recent audit began
AuditSawNonEmptyMismatch(t) ==
    /\ audit.pre[t].sql # NoObj
    /\ audit.pre[t].rows # {}
    /\ ~TableMatches(t, audit.pre[t])

\* the most recent audit examined the definition of table t
AuditExaminedTable(t) ==
    audit.doTables /\ t \in AuditedTables(audit.tblList)

\* C1: an audit never drops or recreates a table that holds a row: such a
\* table keeps its definition and every row it had; when its definition
\* differs from the declared one the table is left exactly as it was and the
\* audit that examined it returns False, with repair and without; a table
\* whose definition is replaced was empty, mismatched and audited with repair.
C1_AuditSparesNonEmptyTables ==
    audit.called =>
        \A t \in TblNames :
            /\ (audit.pre[t].sql # NoObj /\ audit.pre[t].rows # {}) =>
                   /\ dbMaster[t].sql = audit.pre[t].sql
                   /\ audit.pre[t].rows \subseteq dbMaster[t].rows
            /\ AuditSawNonEmptyMismatch(t) =>
                   /\ dbMaster[t].rows = audit.pre[t].rows
                   /\ AuditExaminedTable(t) => ~audit.ok
            /\ (audit.pre[t].sql # NoObj /\ dbMaster[t].sql # audit.pre[t].sql) =>
                   /\ audit.pre[t].rows = {}
                   /\ ~TableMatches(t, audit.pre[t])
                   /\ audit.doRepair
                   /\ AuditExaminedTable(t)
                   /\ TableMatches(t, dbMaster[t])

\* an audit with repair met a non-empty mismatched table, which it kept and
\* reported, and an empty mismatched table, which it recreated
C1_Witness ==
    /\ audit.called /\ audit.doRepair /\ ~audit.ok
    /\ \E t \in TblNames :
           /\ AuditSawNonEmptyMismatch(t) /\ AuditExaminedTable(t)
           /\ dbMaster[t] = audit.pre[t]
    /\ \E t \in TblNames :
           /\ audit.pre[t].sql # NoObj /\ audit.pre[t].rows = {}
           /\ ~TableMatches(t, audit.pre[t])
           /\ TableMatches(t, dbMaster[t])

(***************************************************************************)
(* User-input filters and the region zone index (biofilter.py)             *)
(***************************************************************************)

\* Database._schema['db']['setting']['data']: ('zone_size','100000')
zone_size == 100000

RSes == 1 .. MaxRS

Chromosomes == {1, 2}

\* positions on either side of the first zone boundary
Positions == {zone_size - 50, zone_size + 50}

\* the (chr, posMin, posMax) of an input region, as the parser yields it:
\* posMin and posMax in the order the user wrote them
RegionValues ==
    { [chr |-> c, posMin |-> a, posMax |-> b] :
        c \in Chromosomes, a \in Positions, b \in Positions }

RECURSIVE AsList(_)
\* the elements of a finite set in some fixed order
AsList(S) ==
    IF S = {} THEN <<>>
    ELSE LET x == CHOOSE y \in S : TRUE
         IN  <<x>> \o AsList(S \ {x})

\* the elements of a sequence
Range(q) == { q[i] : i \in 1 .. Len(q) }

\* input lists of SNPs: (rs, extra) with the extra payload left out
SnpInputs == { AsList(S) : S \in { T \in SUBSET RSes : Cardinality(T) <= MaxSnps } }

\* input lists of regions: (label, chr, posMin, posMax, extra) with label and
\* extra left out
RegionInputs ==
    { AsList(S) : S \in { T \in SUBSET RegionValues : Cardinality(T) <= MaxRegions } }

\* `db`.`snp_locus` rows <<rs, chr, pos>> of the knowledge database: RS 1 has
\* one position, RS 2 has two, the others have none
snp_locus == { <<1, 1, zone_size - 50>>, <<2, 1, zone_size + 50>>, <<2, 2, zone_size + 50>> }

\* the knowledge databases a session may run on: without merges, or with
\* RS 4 merged into RS 3 and RS 3 merged into RS 2
MergeTables == { {}, {<<4, 3>>, <<3, 2>>} }

\* the rows of a join that finds no merge record: every RS stays as it is
CurrentRSRowsUnmerged(merge, rs) == << <<rs, rs>> >>

\* the rows of the LEFT JOIN of one input RS with snp_merge:
\* (rsMerged, COALESCE(sm.rsCurrent, i.rsMerged))
CurrentRSRows(merge, rs) ==
    IF \E m \in merge : m[1] = rs
    THEN AsList({ <<rs, m[2]>> : m \in { n \in merge : n[1] = rs } })
    ELSE << <<rs, rs>> >>

RECURSIVE generateCurrentRSesByRSes(_, _)
\* Database.generateCurrentRSesByRSes: yields <<rsInput, rsCurrent>> rows
generateCurrentRSesByRSes(merge, rses) ==
    IF rses = <<>> THEN <<>>
    ELSE CurrentRSRows(merge, Head(rses)) \o generateCurrentRSesByRSes(merge, Tail(rses))

\* a lookup that finds no locus for any RS
SNPLociMatchesNone(rs) == {}

\* the snp_locus rows joined to one RS by generateSNPLociByRSes; the
\* `validated` condition is appended after ORDER BY and filters nothing
SNPLociMatches(rs) == { l \in snp_locus : l[1] = rs }

\* Database.generateSNPLociByRSes(rses, minMatch, maxMatch, tally=dict(),
\* errorCallback) over rses = <<rs, extra>>: the rows of consecutive inputs
\* with one (rs, extra) are one group, a group is yielded or reported by the
\* number of its rows that have a locus, and the groups are tallied
generateSNPLociByRSes(rses, minMatch, maxMatch) ==
    LET closed(st) ==
            IF st.tag = <<>> THEN st
            ELSE LET len == Len(st.matches)
                     counted == [st EXCEPT
                                   !.tally.zero = IF len = 0 THEN @ + 1 ELSE @,
                                   !.tally.one = IF len = 1 THEN @ + 1 ELSE @,
                                   !.tally.many = IF len > 1 THEN @ + 1 ELSE @]
                 IN  IF minMatch <= len /\ len <= maxMatch
                     THEN [counted EXCEPT !.yielded =
                             @ \o (IF len = 0 THEN << st.tag[1] \o <<None, None>> >>
                                   ELSE st.matches)]
                     ELSE [counted EXCEPT !.errors = @ \o st.tag]
        RECURSIVE foreach(_, _)
        foreach(st, n) ==
            IF n > Len(rses) THEN closed(st)
            ELSE LET loci == AsList(SNPLociMatches(rses[n][1]))
                     rows == [i \in 1 .. Len(loci) |->
                                 rses[n] \o << <<loci[i][2]>>, <<loci[i][3]>> >>]
                     next == IF st.tag # <<rses[n]>>
                             THEN [closed(st) EXCEPT !.tag = <<rses[n]>>, !.matches = <<>>]
                             ELSE st
                 IN  foreach([next EXCEPT !.matches = @ \o rows], n + 1)
    IN  foreach([tag |-> <<>>, matches |-> <<>>, yielded |-> <<>>, errors |-> <<>>,
                 tally |-> [zero |-> 0, one |-> 0, many |-> 0]], 1)

\* Biofilter.generateMergedFilteredSNPs: the <<rsInput, rsCurrent>> rows that
\* reach the INSERT
generateMergedFilteredSNPs(merge, ambiguous, snps) ==
    LET genMerge == generateCurrentRSesByRSes(merge, snps)
        genMergeFormat == [i \in 1 .. Len(genMerge) |-> <<genMerge[i][2], genMerge[i][1]>>]
        genLocus == generateSNPLociByRSes(genMergeFormat, 0, 1).yielded
    IN  IF ambiguous = "yes" THEN genMerge
        ELSE [i \in 1 .. Len(genLocus) |-> <<genLocus[i][2], genLocus[i][1]>>]

\* a variant of the zone number that rounds up
TruncDivUp(pos, size) == (pos + size - 1) \div size

\* int(pos / size) of Python 3: true division, then truncation toward zero
TruncDiv(pos, size) == IF pos >= 0 THEN pos \div size ELSE -((-pos) \div size)

\* the filter state the operations below transform
FilterState ==
    [ snp |-> snp, region |-> region, region_zone |-> region_zone,
      filters |-> _inputFilters, deindexed |-> _tablesDeindexed,
      seq |-> sqlite_sequence, zones |-> FALSE ]

\* Biofilter.prepareTableForUpdate
PrepareTableForUpdate(st, table) ==
    [st EXCEPT !.deindexed = st.deindexed \cup {table}]

\* Biofilter.updateRegionZones; the nested prepareTableForQuery(db,'region')
\* re-enters it at most once, with the same result
UpdateRegionZones(st) ==
    LET oriented == { IF r.posMin > r.posMax
                      THEN [r EXCEPT !.posMin = r.posMax, !.posMax = r.posMin]
                      ELSE r : r \in st.region }
        _zones == UNION { { <<r.rowid, r.chr, z>> :
                              z \in TruncDiv(r.posMin, zone_size) ..
                                    TruncDiv(r.posMax, zone_size) } :
                          r \in oriented }
    IN  [st EXCEPT !.region = oriented,
                   !.region_zone = _zones,
                   !.deindexed = st.deindexed \ {"region", "region_zone"},
                   !.filters = [st.filters EXCEPT !["region_zone"] = st.filters["region"]],
                   !.zones = TRUE]

\* Biofilter.prepareTableForQuery
PrepareTableForQuery(st, table) ==
    IF table \in st.deindexed
    THEN LET indexed == [st EXCEPT !.deindexed = st.deindexed \ {table}]
         IN  IF table = "region" THEN UpdateRegionZones(indexed) ELSE indexed
    ELSE st

\* a variant of the fallback test that never takes a filter for fresh
FilterAppliedAlways(st, table) == TRUE

\* the negation of `if not self._inputFilters[db][table]`
FilterApplied(st, table) == st.filters[table] # 0

\* rows inserted by executemany: one new rowid per row of `values`, flag 0
InsertedRows(st, table, values) ==
    { [values[i] EXCEPT !.rowid = st.seq[table] + i] : i \in 1 .. Len(values) }

\* the flag cycle of an intersect: UPDATE flag = 0; UPDATE flag = 1 for the
\* rows whose rowid is in `hits`; DELETE WHERE flag = 0
FlagCycle(rows, hits) ==
    LET cleared == { [r EXCEPT !.flag = 0] : r \in rows }
        marked  == { IF r.rowid \in hits THEN [r EXCEPT !.flag = 1] ELSE r :
                       r \in cleared }
    IN  { r \in marked : r.flag # 0 }

\* Biofilter.unionInputSNPs
UnionInputSNPs(st, merge, ambiguous, snps) ==
    LET prepared == PrepareTableForUpdate(st, "snp")
        merged   == generateMergedFilteredSNPs(merge, ambiguous, snps)
        values   == [i \in 1 .. Len(merged) |->
                        [rowid |-> 0, label |-> merged[i][1], rs |-> merged[i][2],
                         flag |-> 0]]
    IN  [prepared EXCEPT
            !.snp = prepared.snp \cup InsertedRows(prepared, "snp", values),
            !.seq = [prepared.seq EXCEPT !["snp"] = @ + Len(values)],
            !.filters = [prepared.filters EXCEPT !["snp"] = @ + 1]]

\* Biofilter.intersectInputSNPs
IntersectInputSNPs(st, merge, ambiguous, snps) ==
    IF ~FilterApplied(st, "snp") THEN UnionInputSNPs(st, merge, ambiguous, snps)
    ELSE LET prepared == PrepareTableForQuery(st, "snp")
             current  == generateCurrentRSesByRSes(merge, snps)
             hits     == { r.rowid : r \in { q \in prepared.snp :
                              \E i \in 1 .. Len(current) : q.rs = current[i][2] } }
         IN  [prepared EXCEPT
                 !.snp = FlagCycle(prepared.snp, hits),
                 !.filters = [prepared.filters EXCEPT !["snp"] = @ + 1]]

\* Biofilter.unionInputRegions
UnionInputRegions(st, regions) ==
    LET prepared == PrepareTableForUpdate(st, "region")
        values   == [i \in 1 .. Len(regions) |->
                        [rowid |-> 0, chr |-> regions[i].chr,
                         posMin |-> regions[i].posMin, posMax |-> regions[i].posMax,
                         flag |-> 0]]
    IN  [prepared EXCEPT
            !.region = prepared.region \cup InsertedRows(prepared, "region", values),
            !.seq = [prepared.seq EXCEPT !["region"] = @ + Len(values)],
            !.filters = [prepared.filters EXCEPT !["region"] = @ + 1]]

\* Biofilter.intersectInputRegions
IntersectInputRegions(st, regions) ==
    IF ~FilterApplied(st, "region") THEN UnionInputRegions(st, regions)
    ELSE LET prepared == PrepareTableForQuery(st, "region")
             hits     == { r.rowid : r \in { q \in prepared.region :
                              \E i \in 1 .. Len(regions) :
                                  /\ q.chr = regions[i].chr
                                  /\ q.posMin = regions[i].posMin
                                  /\ q.posMax = regions[i].posMax } }
         IN  [prepared EXCEPT
                 !.region = FlagCycle(prepared.region, hits),
                 !.filters = [prepared.filters EXCEPT !["region"] = @ + 1]]

FilterTables == {"snp", "region"}

\* the rows of a filter table
TableRows(table) == IF table = "snp" THEN snp ELSE region

\* the variables after an operation that left the filter state `st`
FilterReturns(st, op, table, rows) ==
    /\ snp' = st.snp
    /\ region' = st.region
    /\ region_zone' = st.region_zone
    /\ _inputFilters' = st.filters
    /\ _tablesDeindexed' = st.deindexed
    /\ sqlite_sequence' = st.seq
    /\ lastCall' = [op |-> op, table |-> table, rows |-> rows,
                    pre |-> TableRows(table), count |-> _inputFilters[table],
                    zones |-> st.zones]
    /\ UNCHANGED <<snp_merge, allow_ambiguous_snps>>
    /\ UNCHANGED notFilterVars

\* a session works on one kind of filter; the tables of the kinds do not
\* read one another
OneKind(table) == \A t \in FilterTables \ {table} : _inputFilters[t] = 0

unionInputSNPs(snps) ==
    /\ OneKind("snp") /\ _inputFilters["snp"] < MaxOps
    /\ FilterReturns(UnionInputSNPs(FilterState, snp_merge, allow_ambiguous_snps, snps),
                     "union", "snp", snps)

intersectInputSNPs(snps) ==
    /\ OneKind("snp") /\ _inputFilters["snp"] < MaxOps
    /\ FilterReturns(IntersectInputSNPs(FilterState, snp_merge, allow_ambiguous_snps, snps),
                     "intersect", "snp", snps)

unionInputRegions(regions) ==
    /\ OneKind("region") /\ _inputFilters["region"] < MaxOps
    /\ FilterReturns(UnionInputRegions(FilterState, regions), "union", "region", regions)

intersectInputRegions(regions) ==
    /\ OneKind("region") /\ _inputFilters["region"] < MaxOps
    /\ FilterReturns(IntersectInputRegions(FilterState, regions),
                     "intersect", "region", regions)

prepareTableForQuery(table) ==
    /\ table \in _tablesDeindexed
    /\ FilterReturns(PrepareTableForQuery(FilterState, table),
                     "prepareTableForQuery", table, <<>>)

updateRegionZones ==
    /\ OneKind("region")
    /\ FilterReturns(UpdateRegionZones(FilterState), "updateRegionZones", "region", <<>>)

\* the filter state after Biofilter.__init__
FilterConstructed ==
    /\ snp = {} /\ region = {} /\ region_zone = {}
    /\ _inputFilters = [t \in FilterTables \cup {"region_zone"} |-> 0]
    /\ _tablesDeindexed = {}
    /\ sqlite_sequence = [t \in FilterTables |-> 0]
    /\ lastCall = [op |-> "none", table |-> "snp", rows |-> <<>>, pre |-> {},
                   count |-> 0, zones |-> FALSE]

InitFilter ==
    /\ snp_merge \in MergeTables
    /\ allow_ambiguous_snps \in {"yes", "no"}
    /\ FilterConstructed

NextFilter ==
    \/ \E snps \in SnpInputs : unionInputSNPs(snps)
    \/ \E snps \in SnpInputs : intersectInputSNPs(snps)
    \/ \E regions \in RegionInputs : unionInputRegions(regions)
    \/ \E regions \in RegionInputs : intersectInputRegions(regions)
    \/ \E table \in FilterTables : prepareTableForQuery(table)
    \/ updateRegionZones

\* the most recent operation ended with updateRegionZones
ZonesJustUpdated ==
    /\ lastCall.zones
    /\ lastCall.op \in {"updateRegionZones", "prepareTableForQuery"}

\* the zone rows of region row r
ZoneRowsOf(r) == { zr \in region_zone : zr[1] = r.rowid }

\* C2: right after updateRegionZones, region_zone holds (rowid, chr, z) for
\* every region row and every z from floor(posMin/Z) to floor(posMax/Z), every
\* zone row belongs to a region row with that chr and has its zone in that
\* range, and a region (chr 1, Z-50, Z+50) has exactly the rows of zones 0, 1.
C2_ZoneIndexCoversRegions ==
    ZonesJustUpdated =>
        /\ \A r \in region :
               \A z \in (r.posMin \div zone_size) .. (r.posMax \div zone_size) :
                   <<r.rowid, r.chr, z>> \in region_zone
        /\ \A zr \in region_zone :
               \E r \in region :
                   /\ r.rowid = zr[1] /\ r.chr = zr[2]
                   /\ zr[3] \in (r.posMin \div zone_size) .. (r.posMax \div zone_size)
        /\ \A r \in region :
               (r.chr = 1 /\ r.posMin = zone_size - 50 /\ r.posMax = zone_size + 50) =>
                   ZoneRowsOf(r) = { <<r.rowid, 1, 0>>, <<r.rowid, 1, 1>> }

\* updateRegionZones has just indexed a region (chr 1, Z-50, Z+50) that was
\* stored the other way round, next to a region inside one zone
C2_Witness ==
    /\ lastCall.op = "updateRegionZones"
    /\ \E r \in region :
           /\ r.chr = 1 /\ r.posMin = zone_size - 50 /\ r.posMax = zone_size + 50
           /\ ZoneRowsOf(r) = { <<r.rowid, 1, 0>>, <<r.rowid, 1, 1>> }
           /\ \E p \in lastCall.pre : p.rowid = r.rowid /\ p.posMin > p.posMax
    /\ \E r \in region : Cardinality(ZoneRowsOf(r)) = 1

\* the most recent operation was an intersect on a filter that had been
\* populated by an earlier union or intersect
IntersectedPopulated == lastCall.op = "intersect" /\ lastCall.count > 0

\* stored row r matches a row of the input list of the most recent call: by
\* its current RS number for a SNP, by chr, posMin and posMax for a region
MatchesInput(r) ==
    IF lastCall.table = "snp"
    THEN \E i \in 1 .. Len(lastCall.rows) :
             \E c \in Range(CurrentRSRows(snp_merge, lastCall.rows[i])) : r.rs = c[2]
    ELSE \E i \in 1 .. Len(lastCall.rows) :
             /\ r.chr = lastCall.rows[i].chr
             /\ r.posMin = lastCall.rows[i].posMin
             /\ r.posMax = lastCall.rows[i].posMax

\* a row without its flag
Unflagged(r) == [r EXCEPT !.flag = 0]

\* C3: an intersect on a populated filter leaves exactly the previously
\* stored rows that match an input row, and none of them has flag 0.
C3_IntersectKeepsMatches ==
    IntersectedPopulated =>
        /\ { Unflagged(r) : r \in TableRows(lastCall.table) } =
               { Unflagged(r) : r \in { q \in lastCall.pre : MatchesInput(q) } }
        /\ \A r \in TableRows(lastCall.table) : r.flag # 0

\* the rows a union of the input list of the most recent call stores in an
\* empty table: label and RS number of the merged and filtered SNPs, or the
\* chr, posMin and posMax of the regions, in input order
AcceptedInputRows ==
    IF lastCall.table = "snp"
    THEN LET m == generateMergedFilteredSNPs(snp_merge, allow_ambiguous_snps,
                                             lastCall.rows)
         IN  { [rowid |-> i, label |-> m[i][1], rs |-> m[i][2], flag |-> 0] :
                 i \in 1 .. Len(m) }
    ELSE { [rowid |-> i, chr |-> lastCall.rows[i].chr,
            posMin |-> lastCall.rows[i].posMin,
            posMax |-> lastCall.rows[i].posMax, flag |-> 0] :
             i \in 1 .. Len(lastCall.rows) }

\* C4 (as the code has it): an intersect on a filter whose counter is 0, one
\* that no union or intersect has been applied to, leaves the table holding
\* the accepted input rows and counts as one operation, as a union does.
C4_IntersectFallsBackOnFreshFilter ==
    (lastCall.op = "intersect" /\ lastCall.count = 0) =>
        /\ lastCall.pre = {}
        /\ TableRows(lastCall.table) = AcceptedInputRows
        /\ _inputFilters[lastCall.table] = 1
        /\ lastCall.table \in _tablesDeindexed

\* C4 (as stated): an intersect on a filter table that holds no rows leaves
\* the table holding the accepted input rows.
C4_IntersectFallsBackOnEmptyTable ==
    (lastCall.op = "intersect" /\ lastCall.pre = {}) =>
        { Unflagged(r) : r \in TableRows(lastCall.table) } = AcceptedInputRows

\* an intersect was the first operation on the SNP filter and stored a
\* merged SNP under the RS number it was merged into
C4_Witness ==
    /\ lastCall.op = "intersect" /\ lastCall.count = 0 /\ lastCall.table = "snp"
    /\ \E r \in snp : r.label # r.rs
    /\ Cardinality(snp) = Len(lastCall.rows)

\* C28: whenever the region table is ready for a query, that is whenever
\* prepareTablesForQuery has nothing left to do for it, region_zone is exactly
\* the zone set of the current region rows: each region row has a row in
\* every zone from floor(posMin/Z) to floor(posMax/Z), and no zone row
\* belongs to a region row that is not in the table
C28_ZonesOfCurrentRegionsAtQuery ==
    "region" \notin _tablesDeindexed =>
        region_zone =
            UNION { { <<r.rowid, r.chr, z>> :
                        z \in (r.posMin \div zone_size) .. (r.posMax \div zone_size) } :
                    r \in region }

(***************************************************************************)
(* liftOver (loki_db.py 2590-2854)                                         *)
(*                                                                         *)
(* Python tuples are 0-based and the tuples here 1-based: seg[k] of the    *)
(* code is seg[k+1] below.  A position that may be None is held as <<p>>.  *)
(***************************************************************************)

\* the most regions a caller streams through one generateLiftOverRegions
MaxStream == 2

\* the knowledge database's chains of one conversion on chromosome 1: the
\* cache key (score, old_start, old_end, new_start, is_fwd, new_chr,
\* chain_id) and the chain's segments (old_start, old_end, new_start) in
\* old_start order, which tile the chain's old range with gaps between them
ChainRows ==
    { [chr |-> 1, key |-> <<900, 10, 27, 110, 1, 1, 1>>,
       data |-> << <<10, 27, 110>> >>],
      [chr |-> 1, key |-> <<500, 8, 30, 208, 1, 2, 2>>,
       data |-> << <<8, 12, 208>>, <<14, 30, 214>> >>],
      [chr |-> 1, key |-> <<900, 8, 30, 352, 0, 1, 3>>,
       data |-> << <<8, 30, 352>> >>] }

\* regions (label, chr, posMin, posMax, extra) as generateRegionsFromText
\* yields them; a bound given as '-' or 'NA' is None.  The positions lie
\* inside one chain only, in the gap of another, and past the end of the
\* shortest chain.
LiftInputs ==
    LET positions == {10, 13, 29}
    IN  { <<"r", 1, <<s>>, <<e>>, "x">> : s \in positions, e \in positions }
            \cup { <<"r", 1, None, <<13>>, "x">>, <<"r", 1, <<29>>, None, "x">>,
                   <<"r", 1, None, None, "x">> }

\* Python's a < b on tuples of integers of the same length
RECURSIVE TupleLess(_, _)
TupleLess(a, b) ==
    IF a = <<>> THEN FALSE
    ELSE IF Head(a) # Head(b) THEN Head(a) < Head(b)
    ELSE TupleLess(Tail(a), Tail(b))

KeyBeforeAscending(a, b) == TupleLess(a, b)

\* a is ahead of b after chains['keys'][k].sort(reverse=True)
KeyBefore(a, b) == TupleLess(b, a)

\* the sorted key list of one chromosome, each key with its segment list
RECURSIVE SortedChains(_)
SortedChains(rows) ==
    IF rows = {} THEN <<>>
    ELSE LET top == CHOOSE c \in rows :
                        \A d \in rows \ {c} : KeyBefore(c.key, d.key)
         IN  <<top>> \o SortedChains(rows \ {top})

SkipNothing(data, idx, start) == IF idx < 1 THEN 1 ELSE idx

\* the first while loop (2681-2682) from index idx: the index it stops at,
\* or 0 when data[idx] is read past the end of the list (IndexError).
\* Python 2 orders None below every integer; Python 3 never gets here with
\* a None bound.
RECURSIVE SkipBefore(_, _, _)
SkipBefore(data, idx, start) ==
    IF idx < 1 THEN SkipBefore(data, idx + 1, start)
    ELSE IF idx > Len(data) THEN 0
    ELSE IF start # None /\ data[idx][2] < start[1]
         THEN SkipBefore(data, idx + 1, start)
    ELSE idx

\* lines 2679-2685 for one overlapping chain: the segments yielded in
\* order, or the IndexError of the first loop
ScanChain(c, start, end) ==
    LET data == c.data
        \* bisect.bisect(data, (start, maxsize, maxsize)) - 1, 1-based
        idx == Cardinality({ i \in 1..Len(data) :
                                start # None /\ data[i][1] <= start[1] })
        first == SkipBefore(data, idx, start)
        stop == CHOOSE j \in first..(Len(data) + 1) :
                    /\ j = Len(data) + 1 \/ data[j][1] > end[1]
                    /\ \A k \in first..(j - 1) : data[k][1] <= end[1]
    IN  IF first = 0 THEN [raised |-> TRUE, segs |-> <<>>]
        ELSE [raised |-> FALSE,
              segs |-> [k \in 1..(stop - first) |->
                          <<c.key[7], data[first + k - 1][1],
                            data[first + k - 1][2], data[first + k - 1][3],
                            c.key[5], c.key[6]>>]]

\* everything the generator yields for one region, chain after chain in
\* key order, and whether it ends by raising
RECURSIVE _generateApplicableLiftOverChains(_, _, _)
_generateApplicableLiftOverChains(keys, start, end) ==
    LET \* the test of line 2678 under the interpreter's ordering of None
        Overlaps(key) ==
            /\ start = None \/ start[1] <= key[3]
            /\ end # None /\ end[1] >= key[2]
    IN
    IF keys = <<>> THEN [raised |-> FALSE, segs |-> <<>>]
    ELSE IF ~Overlaps(Head(keys).key)
         THEN _generateApplicableLiftOverChains(Tail(keys), start, end)
    ELSE LET scan == ScanChain(Head(keys), start, end)
             rest == _generateApplicableLiftOverChains(Tail(keys), start, end)
         IN  IF scan.raised THEN scan
             ELSE [raised |-> rest.raised, segs |-> scan.segs \o rest.segs]

MeetsThresholdStrictly(mapped_size, size) == 20 * mapped_size > 19 * size

\* mapped_size / float(size) >= 0.95 (2741); both sides are exact at these
\* magnitudes, 0.95 being 19/20
MeetsThreshold(mapped_size, size) == 20 * mapped_size >= 19 * size

\* lines 2716-2744 for integer start and end; the record keeps the
\* intermediate values next to mapped_reg
_liftOverRegionUsingChains(label, start, end, extra, first_seg, end_seg, total_mapped_sz) ==
    LET max(a, b) == IF a >= b THEN a ELSE b
        min(a, b) == IF a <= b THEN a ELSE b
        front_diff == max(0, min(start - first_seg[2],
                                 first_seg[3] - first_seg[2]))
        end_diff == max(0, min(end - end_seg[2], end_seg[3] - end_seg[2]))
        new_start == IF first_seg[5] # 0 THEN first_seg[4] + front_diff
                     ELSE end_seg[4] - end_diff
        new_end == IF first_seg[5] # 0 THEN end_seg[4] + end_diff
                   ELSE first_seg[4] - front_diff
        mapped_size == total_mapped_sz - front_diff
                         - (end_seg[3] - end_seg[2] + 1) + end_diff + 1
    IN  [chain |-> first_seg[1], first_seg |-> first_seg,
         end_seg |-> end_seg, total_mapped_sz |-> total_mapped_sz,
         front_diff |-> front_diff, end_diff |-> end_diff,
         new_start |-> new_start, new_end |-> new_end,
         mapped_size |-> mapped_size,
         mapped_reg |-> IF MeetsThreshold(mapped_size, end - start + 1)
                        THEN <<label, first_seg[6], new_start, new_end, extra>>
                        ELSE None]

SegmentSizeOpen(seg) == seg[3] - seg[2]

\* seg[2] - seg[1] + 1 (2793, 2801, 2804): the positions of a yielded segment
SegmentSize(seg) == seg[3] - seg[2] + 1

\* the loop of lines 2788-2804 over the segments still to come; st holds
\* the loop's locals and the evaluations made so far, in order
RECURSIVE ApplyChains(_, _, _)
ApplyChains(segs, r, st) ==
    IF segs = <<>> THEN st
    ELSE LET seg == Head(segs)
             opened == [st EXCEPT !.curr_chain = <<seg[1]>>,
                                  !.first_seg = seg, !.end_seg = seg,
                                  !.total_mapped_sz = SegmentSize(seg)]
         IN  IF st.curr_chain = None THEN ApplyChains(Tail(segs), r, opened)
             ELSE IF <<seg[1]>> # st.curr_chain
                  THEN LET ev == _liftOverRegionUsingChains(
                                     r.label, r.start, r.end, r.extra,
                                     st.first_seg, st.end_seg,
                                     st.total_mapped_sz)
                       IN  IF ev.mapped_reg # None
                           THEN [st EXCEPT !.mapped_reg = ev.mapped_reg,
                                           !.evals = Append(@, ev),
                                           !.broke = TRUE]
                           ELSE ApplyChains(Tail(segs), r,
                                    [opened EXCEPT !.evals = Append(@, ev)])
             ELSE ApplyChains(Tail(segs), r,
                      [st EXCEPT !.end_seg = seg,
                                 !.total_mapped_sz = @ + SegmentSize(seg)])

StartNeverAfterEnd(start, end) == FALSE

\* start > end (2778); Python 2 orders None below every integer
StartAfterEnd(start, end) ==
    /\ start # None
    /\ end = None \/ start[1] > end[1]

\* one pass of the loop body of generateLiftOverRegions (2776-2817) for one
\* region: how it ends and what it computed on the way
LiftOneRegion(chains, py, reg) ==
    LET label == reg[1]
        extra == reg[5]
        hasNone == reg[3] = None \/ reg[4] = None
        swap == StartAfterEnd(reg[3], reg[4])
        Result(start, end, segs, evals, mapped_reg, outcome) ==
            [region |-> reg, start |-> start, end |-> end,
             is_region |-> start # end, segs |-> segs, evals |-> evals,
             mapped_reg |-> mapped_reg, outcome |-> outcome]
        \* lines 2809-2817 for integer bounds
        Finish(start, end, gen, final) ==
            IF gen.raised /\ ~final.broke
            THEN Result(start, end, gen.segs, <<>>, None, "IndexError")
            ELSE IF final.mapped_reg = None
            THEN Result(start, end, gen.segs, final.evals, None, "null")
            ELSE Result(start, end, gen.segs, final.evals,
                        IF start # end THEN final.mapped_reg
                        ELSE <<final.mapped_reg[1], final.mapped_reg[2],
                               final.mapped_reg[3], final.mapped_reg[3],
                               extra>>,
                        "lift")
        \* lines 2806-2807
        AfterLoop(start, end, gen, loop) ==
            IF loop.mapped_reg = None /\ loop.first_seg # None
            THEN Finish(start, end, gen,
                     LET tail == _liftOverRegionUsingChains(
                                     label, start[1], end[1], extra,
                                     loop.first_seg, loop.end_seg,
                                     loop.total_mapped_sz)
                     IN  [loop EXCEPT !.mapped_reg = tail.mapped_reg,
                                      !.evals = Append(@, tail)])
            ELSE Finish(start, end, gen, loop)
        Lift(start, end, gen) ==
            IF py = 3 /\ hasNone
            THEN Result(start, end, <<>>, <<>>, None, "TypeError")
            ELSE IF hasNone
            THEN \* Python 2: start is None; the first evaluation subtracts
                 \* first_seg[1] from it (2722)
                 Result(start, end, gen.segs, <<>>, None,
                        IF gen.segs # <<>> THEN "TypeError"
                        ELSE IF gen.raised THEN "IndexError" ELSE "null")
            ELSE AfterLoop(start, end, gen,
                     ApplyChains(gen.segs,
                         [label |-> label, start |-> start[1],
                          end |-> end[1], extra |-> extra],
                         [curr_chain |-> None, first_seg |-> None,
                          end_seg |-> None, total_mapped_sz |-> 0,
                          mapped_reg |-> None, evals |-> <<>>,
                          broke |-> FALSE]))
        Oriented(start, end) ==
            Lift(start, end,
                 _generateApplicableLiftOverChains(
                     SortedChains({ c \in chains : c.chr = reg[2] }),
                     start, end))
    IN  Oriented(IF swap THEN reg[4] ELSE reg[3],
                 IF swap THEN reg[3] ELSE reg[4])

\* one region taken from the input stream and carried through the loop
\* body; an exception leaves the generator and ends the stream
generateLiftOverRegions(reg) ==
    /\ liftStatus = "running"
    /\ Len(liftRegions) < MaxStream
    /\ LET Iterate(res) ==
               /\ liftRegions' = Append(liftRegions, reg)
               /\ liftLast' = res @@ [called |-> TRUE]
               /\ numLift' = IF res.outcome = "lift" THEN numLift + 1
                             ELSE numLift
               /\ liftYielded' = IF res.outcome = "lift"
                                 THEN Append(liftYielded, res.mapped_reg)
                                 ELSE liftYielded
               /\ numNull' = IF res.outcome = "null" THEN numNull + 1
                             ELSE numNull
               /\ liftErrors' = IF res.outcome = "null" /\ liftOpts.errorCallback
                                THEN Append(liftErrors, reg)
                                ELSE liftErrors
               /\ liftStatus' = IF res.outcome \in {"lift", "null"}
                                THEN "running" ELSE res.outcome
       IN  Iterate(LiftOneRegion(liftChains, python, reg))
    /\ UNCHANGED <<liftChains, python, liftOpts, tally>>
    /\ UNCHANGED notLiftVars

\* the input stream is exhausted (2820-2822)
generateLiftOverRegionsEnd ==
    /\ liftStatus = "running"
    /\ liftStatus' = "exhausted"
    /\ tally' = IF liftOpts.tally
                THEN [null |-> numNull, lift |-> numLift] ELSE tally
    /\ UNCHANGED <<liftChains, python, liftOpts, liftRegions, liftYielded,
                   liftErrors, numLift, numNull, liftLast>>
    /\ UNCHANGED notLiftVars

\* a generator that has not been asked for anything yet; tally is the
\* caller's empty dict
LiftStarted ==
    /\ liftRegions = <<>> /\ liftYielded = <<>> /\ liftErrors = <<>>
    /\ numLift = 0 /\ numNull = 0
    /\ tally = <<>>
    /\ liftStatus = "running"
    /\ liftLast = [called |-> FALSE, region |-> None, start |-> None,
                   end |-> None, is_region |-> FALSE, segs |-> <<>>,
                   evals |-> <<>>, mapped_reg |-> None, outcome |-> "null"]

InitLift ==
    /\ liftChains \in SUBSET ChainRows
    /\ python \in {2, 3}
    /\ liftOpts \in [tally : BOOLEAN, errorCallback : BOOLEAN]
    /\ LiftStarted

NextLift ==
    \/ \E reg \in LiftInputs : generateLiftOverRegions(reg)
    \/ generateLiftOverRegionsEnd

\* a forward chain of two segments on chromosome 2 with old range
\* 1000..2000, and a chain whose segment list ends before its old range does
GappedChain ==
    [chr |-> 2, key |-> <<700, 1000, 2000, 5000, 1, 2, 4>>,
     data |-> << <<1000, 1500, 5000>>, <<1600, 2000, 5600>> >>]

TruncatedChain ==
    [chr |-> 1, key |-> <<600, 8, 30, 408, 1, 2, 5>>,
     data |-> << <<8, 12, 408>> >>]

\* a region that starts in the first and ends in the second segment of
\* GappedChain
GapInputs == { <<"r", 2, <<1200>>, <<1800>>, "x">> }

InitLiftChains ==
    /\ liftChains \in SUBSET (ChainRows \cup {GappedChain, TruncatedChain})
    /\ python \in {2, 3}
    /\ liftOpts \in [tally : BOOLEAN, errorCallback : BOOLEAN]
    /\ LiftStarted

NextLiftChains ==
    \/ \E reg \in LiftInputs \cup GapInputs : generateLiftOverRegions(reg)
    \/ generateLiftOverRegionsEnd

\* the chain row an evaluation was made for
EvalChain(ev) == CHOOSE c \in liftChains : c.key[7] = ev.chain

\* the positions of [start, end] that lie inside a segment of chain c
Covered(c, start, end) ==
    { p \in start..end :
        \E i \in 1..Len(c.data) : c.data[i][1] <= p /\ p <= c.data[i][2] }

\* mapped_size as the specification words it, from the chain's segments
\* that overlap [start, end]; the offsets are clamped to
\* [0, old_end - old_start + slack]
ClampedMappedSize(c, start, end, slack) ==
    LET Clamp(x, hi) == IF x < 0 THEN 0 ELSE IF x > hi THEN hi ELSE x
        over == { i \in 1..Len(c.data) :
                    c.data[i][2] >= start /\ c.data[i][1] <= end }
        Sized(first, last, total) ==
            total - Clamp(start - first[1], first[2] - first[1] + slack)
                  - (last[2] - last[1] + 1)
                  + Clamp(end - last[1], last[2] - last[1] + slack) + 1
    IN  Sized(c.data[CHOOSE i \in over : \A j \in over : i <= j],
              c.data[CHOOSE i \in over : \A j \in over : i >= j],
              Cardinality(UNION { { <<i, p>> : p \in c.data[i][1]..c.data[i][2] } :
                                  i \in over }))

\* every evaluation of the latest region accepts exactly when the claimed
\* mapped size, with this clamp, is at least 95% of the region
AcceptsOnClamp(slack) ==
    \A i \in 1..Len(liftLast.evals) :
        LET Agrees(ev, size) ==
                (ev.mapped_reg # None) <=>
                    20 * size >= 19 * (liftLast.end[1] - liftLast.start[1] + 1)
        IN  Agrees(liftLast.evals[i],
                   ClampedMappedSize(EvalChain(liftLast.evals[i]),
                       liftLast.start[1], liftLast.end[1], slack))

\* C5 (amended): a chain's mapping is accepted if and only if
\* mapped_size / (end - start + 1) >= 0.95, where mapped_size =
\* total_mapped_sz - front_diff - end_seg.length + end_diff + 1 with the
\* offsets clamped to [0, old_end - old_start] of their segment; that
\* mapped_size is the number of positions of the region inside the chain's
\* segments, and a region is yielded only from an accepted evaluation.
C5_AcceptsOnCoveredFraction ==
    liftLast.called =>
        /\ AcceptsOnClamp(0)
        /\ \A i \in 1..Len(liftLast.evals) :
              liftLast.evals[i].mapped_size =
                  Cardinality(Covered(EvalChain(liftLast.evals[i]),
                                      liftLast.start[1], liftLast.end[1]))
        /\ liftLast.outcome = "lift" <=>
              \E i \in 1..Len(liftLast.evals) :
                  liftLast.evals[i].mapped_reg # None

\* C5 (as stated): the same equivalence with the offsets clamped to
\* [0, segment length], the length being old_end - old_start + 1.
C5_AcceptsOnOffsetsClampedToLength ==
    liftLast.called => AcceptsOnClamp(1)

\* a region was accepted at exactly 19/20 from two segments, with both
\* offsets inside their segment, after a higher chain was rejected
C5_Witness ==
    /\ liftLast.called /\ liftLast.outcome = "lift"
    /\ Len(liftLast.evals) = 2
    /\ LET ev == liftLast.evals[2]
       IN  /\ 20 * ev.mapped_size = 19 * (liftLast.end[1] - liftLast.start[1] + 1)
           /\ ev.first_seg # ev.end_seg
           /\ ev.front_diff > 0 /\ ev.end_diff > 0

\* chain c covers at least 95% of the latest region
Acceptable(c) ==
    /\ c.chr = liftLast.region[2]
    /\ 20 * Cardinality(Covered(c, liftLast.start[1], liftLast.end[1]))
          >= 19 * (liftLast.end[1] - liftLast.start[1] + 1)

\* the latest region went through the chains and came out mapped or not
LiftCompleted ==
    /\ liftLast.called /\ liftLast.outcome \in {"lift", "null"}
    /\ liftLast.start # None /\ liftLast.end # None

\* C6: the chains of a region are tried in descending score order, each
\* one only after all chains tried before it failed the threshold; a
\* yielded mapping is that of a chain which covers 95% of the region, no
\* chain of a higher score covers 95% of it, and every chain ahead of it in
\* the key order that has a segment in the region was tried and failed;
\* when nothing is yielded no chain covers 95% of the region.
C6_HighestScoringAcceptableChainWins ==
    LiftCompleted =>
        LET evals == liftLast.evals
            n == Len(evals)
            Won(win) ==
                /\ evals[n].mapped_reg # None
                /\ liftLast.mapped_reg[2] = win.key[6]
                /\ liftLast.mapped_reg[3] = evals[n].mapped_reg[3]
                /\ Acceptable(win)
                /\ \A c \in liftChains :
                      Acceptable(c) => c.key[1] <= win.key[1]
                /\ \A c \in liftChains :
                      (/\ TupleLess(win.key, c.key)
                       /\ Covered(c, liftLast.start[1], liftLast.end[1]) # {})
                          => \E i \in 1..(n - 1) : evals[i].chain = c.key[7]
        IN  /\ \A i \in 1..(n - 1) :
                  /\ evals[i].mapped_reg = None
                  /\ EvalChain(evals[i]).key[1] >= EvalChain(evals[i + 1]).key[1]
            /\ liftLast.outcome = "lift" => n > 0 /\ Won(EvalChain(evals[n]))
            /\ liftLast.outcome = "null" =>
                  \A c \in liftChains : ~Acceptable(c)

\* a region was mapped by the second chain tried, after the first one
\* failed, while a chain of a lower score would have mapped it too
C6_Witness ==
    /\ LiftCompleted /\ liftLast.outcome = "lift"
    /\ Len(liftLast.evals) = 2
    /\ \E c \in liftChains :
          /\ Acceptable(c)
          /\ c.key[1] < EvalChain(liftLast.evals[2]).key[1]

\* C7: every region consumed so far was either yielded mapped or counted
\* as null and, with an error callback, handed to it once; the latest
\* region is the last one yielded or the last one reported; after the
\* stream is exhausted the tally's lift and null add up to the regions
\* consumed.
C7_EveryRegionHasOneOutcome ==
    /\ numLift = Len(liftYielded)
    /\ numLift + numNull = Len(liftRegions)
    /\ Len(liftErrors) = IF liftOpts.errorCallback THEN numNull ELSE 0
    /\ liftLast.called =>
          \/ /\ liftLast.outcome = "lift"
             /\ liftYielded[Len(liftYielded)] = liftLast.mapped_reg
          \/ /\ liftLast.outcome = "null"
             /\ liftOpts.errorCallback =>
                   liftErrors[Len(liftErrors)] = liftLast.region
    /\ (liftStatus = "exhausted" /\ liftOpts.tally) =>
          tally.lift + tally.null = Len(liftRegions)

\* C23: a region given with its start after its end is lifted as the region
\* with the two bounds exchanged: it yields the same mapped chromosome and
\* coordinates, or fails the same way
C23_ReversedBoundsLiftAlike ==
    /\ liftLast.called
    /\ liftLast.region[3] # None /\ liftLast.region[4] # None
    /\ liftLast.region[3][1] > liftLast.region[4][1]
    => LET reg == liftLast.region
           ordered == LiftOneRegion(liftChains, python,
                                    <<reg[1], reg[2], reg[4], reg[3], reg[5]>>)
       IN  /\ liftLast.outcome = ordered.outcome
           /\ liftLast.mapped_reg = ordered.mapped_reg
           /\ liftLast.outcome = "lift" =>
                  liftLast.mapped_reg = liftYielded[Len(liftYielded)]

C23_Witness ==
    /\ liftLast.called
    /\ liftLast.region[3] = <<29>> /\ liftLast.region[4] = <<10>>
    /\ liftLast.outcome = "lift"
    /\ liftLast.mapped_reg[3] # liftLast.mapped_reg[4]

\* the one evaluation made for the region 1200..1800 against GappedChain
GapEvaluated(mapped_size) ==
    /\ liftLast.called
    /\ liftLast.region \in GapInputs
    /\ GappedChain \in liftChains
    => /\ Len(liftLast.evals) = 1
       /\ LET ev == liftLast.evals[1]
          IN  /\ SubSeq(ev.first_seg, 2, 4) = <<1000, 1500, 5000>>
              /\ SubSeq(ev.end_seg, 2, 4) = <<1600, 2000, 5600>>
              /\ ev.front_diff = 200 /\ ev.end_diff = 200
              /\ ev.new_start = 5200 /\ ev.new_end = 5800
              /\ ev.mapped_size = mapped_size
              /\ ev.mapped_reg = None
       /\ liftLast.outcome = "null"
       /\ liftOpts.errorCallback => liftErrors[Len(liftErrors)] = liftLast.region

\* C25 as stated: for the forward chain 1000..2000 -> 5000 with segments
\* (1000,1500,5000) and (1600,2000,5600) the region 1200..1800 has
\* front_diff 200, end_diff 200, new_start 5200, new_end 5800 and mapped_size
\* 501, and is dropped and reported
C25_GapRegionMaps501 == GapEvaluated(501)

\* C25: the same evaluation has mapped_size 502, the 301 positions
\* 1200..1500 and the 201 positions 1600..1800; 502 of 601 is below 0.95, so
\* the region is dropped and reported
C25_GapRegionMaps502 == GapEvaluated(502)

C25_Witness ==
    /\ liftLast.called
    /\ liftLast.region \in GapInputs
    /\ GappedChain \in liftChains
    /\ liftOpts.errorCallback
    /\ liftErrors # <<>>
    /\ liftLast.evals[1].total_mapped_sz = 902

\* C29: for a region with two known bounds the segment scan of every
\* overlapping chain ends inside the chain's segment list, also when no
\* segment of the chain ends at or after the region start
C29_ScanStaysInsideSegmentList ==
    /\ liftLast.called
    /\ liftLast.region[3] # None /\ liftLast.region[4] # None
    => /\ liftLast.outcome # "IndexError"
       /\ liftStatus # "IndexError"

\* C30: the mapped_size of every evaluated chain is the number of positions
\* of [start, end] that lie inside that chain's segments, and so at least 1
\* and at most end - start + 1
C30_MappedSizeCountsCoveredPositions ==
    liftLast.called =>
        \A i \in 1 .. Len(liftLast.evals) :
            LET ev == liftLast.evals[i]
                inside == { p \in liftLast.start[1] .. liftLast.end[1] :
                              \E k \in 1 .. Len(EvalChain(ev).data) :
                                  /\ EvalChain(ev).data[k][1] <= p
                                  /\ p <= EvalChain(ev).data[k][2] }
            IN  /\ ev.mapped_size = Cardinality(inside)
                /\ ev.mapped_size >= 1
                /\ ev.mapped_size <= liftLast.end[1] - liftLast.start[1] + 1

\* a region that starts in the gap between two segments and ends past the
\* last one was evaluated against that chain after a higher chain
C30_Witness ==
    /\ liftLast.called
    /\ liftLast.start = <<13>> /\ liftLast.end = <<29>>
    /\ Len(liftLast.evals) = 2
    /\ liftLast.evals[2].chain = 2
    /\ liftLast.evals[2].mapped_size = 16
    /\ liftLast.evals[2].front_diff = 0

(***************************************************************************)
(* Current RS numbers (loki_db.py 1899-1932)                               *)
(***************************************************************************)

\* the most RS numbers a caller passes in one call
MaxRSInputs == 2

\* the snp_merge tables in which every RS number was merged at most once
\* and following rsMerged -> rsCurrent comes to an end
MergeHistories ==
    LET RECURSIVE Follow(_, _, _)
        Follow(f, rs, k) ==
            IF k = 0 \/ f[rs] = 0 THEN rs ELSE Follow(f, f[rs], k - 1)
    IN  { { <<rs, f[rs]>> : rs \in { r \in RSes : f[r] # 0 } } :
            f \in { g \in [RSes -> RSes \cup {0}] :
                      \A rs \in RSes : g[Follow(g, rs, MaxRS)] = 0 } }

\* Database.generateCurrentRSesByRSes(rses, tally) run to its end
generateCurrentRSesByRSesCall(rses) ==
    /\ LET Returned(rows) ==
               currentRS' =
                   [called |-> TRUE, rses |-> rses, rows |-> rows,
                    tally |->
                      [merge |-> Cardinality({ i \in 1..Len(rows) :
                                                 rows[i][2] # rows[i][1] }),
                       match |-> Cardinality({ i \in 1..Len(rows) :
                                                 rows[i][2] = rows[i][1] })]]
       IN  Returned(generateCurrentRSesByRSes(snp_merge, rses))
    /\ UNCHANGED notMergeVars

\* no call made yet
MergeIdle ==
    currentRS = [called |-> FALSE, rses |-> <<>>, rows |-> <<>>,
                 tally |-> [merge |-> 0, match |-> 0]]

InitMerge ==
    /\ snp_merge \in MergeHistories
    /\ allow_ambiguous_snps = "no"
    /\ FilterConstructed
    /\ MergeIdle

NextMerge ==
    \E n \in 1..MaxRSInputs : \E rses \in [1..n -> RSes] :
        generateCurrentRSesByRSesCall(rses)

\* the RS number at which following rsMerged -> rsCurrent from rs ends
RECURSIVE ResolvedRS(_, _)
ResolvedRS(merge, rs) ==
    IF \E m \in merge : m[1] = rs
    THEN ResolvedRS(merge, (CHOOSE m \in merge : m[1] = rs)[2])
    ELSE rs

\* the call was made with the one RS number rs
ResolvedOne(rs) == currentRS.called /\ currentRS.rses = <<rs>>

\* C8 (amended): generateCurrentRSesByRSes([rs]) returns one row; its
\* rsCurrent is rs when rs is not merged and otherwise the rsCurrent of the
\* snp_merge row of rs, one step along rsMerged -> rsCurrent, which is the
\* end of the merge history only when that RS number is itself not merged.
C8_CurrentRSIsOneStep ==
    \A rs \in RSes : ResolvedOne(rs) =>
        /\ Len(currentRS.rows) = 1
        /\ currentRS.rows[1][1] = rs
        /\ IF \E m \in snp_merge : m[1] = rs
           THEN <<rs, currentRS.rows[1][2]>> \in snp_merge
           ELSE currentRS.rows[1][2] = rs
        /\ (\A m \in snp_merge : m[1] # currentRS.rows[1][2]) =>
              currentRS.rows[1][2] = ResolvedRS(snp_merge, rs)

\* C8 (as stated): generateCurrentRSesByRSes([rs]) returns rs when rs is
\* not merged and otherwise the end of its merge history.
C8_CurrentRSIsFixedPoint ==
    \A rs \in RSes : ResolvedOne(rs) =>
        /\ Len(currentRS.rows) = 1
        /\ currentRS.rows[1][2] = ResolvedRS(snp_merge, rs)

\* an RS number merged into one that was merged again was resolved
C8_Witness ==
    \E rs \in RSes : \E m \in snp_merge : \E n \in snp_merge :
        /\ ResolvedOne(rs)
        /\ m[1] = rs /\ n[1] = m[2]
        /\ currentRS.rows = << <<rs, m[2]>> >>
        /\ currentRS.tally.merge = 1

\* a merge history in which RS 100 was merged into RS 200 and RS 200 into
\* RS 300, whole or in part, and the (rsInput, extra) pairs asked about it
MergeChain == {<<100, 200>>, <<200, 300>>}

MergeChainInputs == { <<rs, extra>> : rs \in {100, 200, 300}, extra \in {"x", "y"} }

CurrentRSRowsResolved(merge, rs, extra) == << <<rs, extra, ResolvedRS(merge, rs)>> >>

\* the rows of the statement for one input pair, the extra column passed on:
\* (i.rsMerged, i.extra, COALESCE(sm.rsCurrent, i.rsMerged))
CurrentRSRowsWithExtra(merge, rs, extra) ==
    [k \in 1 .. Len(CurrentRSRows(merge, rs)) |->
        <<rs, extra, CurrentRSRows(merge, rs)[k][2]>>]

\* Database.generateCurrentRSesByRSes(rses, tally) with rses as the callers
\* pass them, a list of (rsInput, extra), run to its end
generateCurrentRSesByRSesExtra ==
    /\ ~currentRS.called
    /\ \E n \in 1 .. MaxRSInputs : \E rses \in [1 .. n -> MergeChainInputs] :
          LET RECURSIVE Rows(_)
              Rows(i) == IF i > Len(rses) THEN <<>>
                         ELSE CurrentRSRowsWithExtra(snp_merge, rses[i][1], rses[i][2])
                                 \o Rows(i + 1)
              rows == Rows(1)
          IN  currentRS' =
                  [called |-> TRUE, rses |-> rses, rows |-> rows,
                   tally |->
                     [merge |-> Cardinality({ i \in 1 .. Len(rows) :
                                                rows[i][3] # rows[i][1] }),
                      match |-> Cardinality({ i \in 1 .. Len(rows) :
                                                rows[i][3] = rows[i][1] })]]
    /\ UNCHANGED notMergeVars

InitMergeChain ==
    /\ snp_merge \in SUBSET MergeChain
    /\ allow_ambiguous_snps = "no"
    /\ FilterConstructed
    /\ MergeIdle

\* C24: generateCurrentRSesByRSes follows exactly one rsMerged -> rsCurrent
\* step: every input pair yields rows that carry its RS number and extra and
\* the rsCurrent of its own snp_merge row, or its own RS number when it has
\* none, and with snp_merge = {(100,200),(200,300)} the input (100,"x")
\* yields exactly the one row (100,"x",200), not resolved further to 300
C24_OneMergeStepOnly ==
    currentRS.called /\ currentRS.rses \in Seq(MergeChainInputs) =>
        /\ Len(currentRS.rows) = Len(currentRS.rses)
        /\ \A i \in 1 .. Len(currentRS.rows) :
              /\ currentRS.rows[i][1] = currentRS.rses[i][1]
              /\ currentRS.rows[i][2] = currentRS.rses[i][2]
              /\ IF \E m \in snp_merge : m[1] = currentRS.rses[i][1]
                 THEN <<currentRS.rows[i][1], currentRS.rows[i][3]>> \in snp_merge
                 ELSE currentRS.rows[i][3] = currentRS.rows[i][1]
        /\ snp_merge = MergeChain /\ currentRS.rses = << <<100, "x">> >> =>
              currentRS.rows = << <<100, "x", 200>> >>

C24_Witness ==
    /\ currentRS.called
    /\ snp_merge = MergeChain
    /\ currentRS.rses = << <<100, "x">> >>
    /\ currentRS.rows = << <<100, "x", 200>> >>
    /\ ResolvedRS(snp_merge, 100) = 300

(***************************************************************************)
(* The query planner: Biofilter.buildQuery and getQueryText               *)
(* (biofilter.py).  The sessions of this section load SNPs as main and as  *)
(* alternate input and may load user-defined knowledge; the planner tables *)
(* are cut down to the aliases such a session can reach: the SNP input     *)
(* tables, the knowledge tables from SNP positions over gene regions to    *)
(* groups, the user-defined groups, and the (empty) position, gene and     *)
(* group input tables that the output columns name as sources.             *)
(***************************************************************************)

MaxSelect == 2      \* output columns in one request
MaxQueries == 2     \* buildQuery calls in one session

\* table alias -> (db, table)
_queryAliasTable ==
    [ m_s  |-> <<"main", "snp">>,
      m_l  |-> <<"main", "locus">>,
      m_bg |-> <<"main", "gene">>,
      m_g  |-> <<"main", "group">>,
      a_s  |-> <<"alt", "snp">>,
      a_l  |-> <<"alt", "locus">>,
      a_bg |-> <<"alt", "gene">>,
      a_g  |-> <<"alt", "group">>,
      u_gb |-> <<"user", "group_biopolymer">>,
      u_g  |-> <<"user", "group">>,
      d_sl |-> <<"db", "snp_locus">>,
      d_br |-> <<"db", "biopolymer_region">>,
      d_bz |-> <<"db", "biopolymer_zone">>,
      d_b  |-> <<"db", "biopolymer">>,
      d_gb |-> <<"db", "group_biopolymer">>,
      d_g  |-> <<"db", "group">> ]

\* constraints on single aliases: <<aliases, conditions>>
_queryAliasConditions ==
    { <<{"d_br"}, {"{L}.ldprofile_id = {ldprofileID}"}>>,
      <<{"d_gb"}, {"{L}.biopolymer_id != 0",
                   "({L}.{gbColumn1} {gbCondition} OR {L}.{gbColumn2} {gbCondition})"}>> }

\* constraints for joining two aliases: <<left aliases, right aliases,
\* conditions>>; a key of one alias set pairs the set with itself
_queryAliasJoinConditions ==
    { <<{"m_s", "a_s", "d_sl"}, {"m_s", "a_s", "d_sl"}, {"{L}.rs = {R}.rs"}>>,
      <<{"m_l", "a_l", "d_sl"}, {"m_l", "a_l", "d_sl"},
        {"{L}.chr = {R}.chr", "{L}.pos = {R}.pos"}>>,
      <<{"m_l", "a_l", "d_sl"}, {"d_bz"},
        {"{L}.chr = {R}.chr",
         "{L}.pos >= (({R}.zone * {zoneSize}) - {rpMargin})",
         "{L}.pos < ((({R}.zone + 1) * {zoneSize}) + {rpMargin})",
         "(({L}.pos + {rpMargin}) / {zoneSize}) >= {R}.zone",
         "(({L}.pos - {rpMargin}) / {zoneSize}) <= {R}.zone"}>>,
      <<{"d_bz"}, {"d_br"},
        {"{L}.biopolymer_id = {R}.biopolymer_id",
         "{L}.chr = {R}.chr",
         "(({L}.zone + 1) * {zoneSize}) > {R}.posMin",
         "({L}.zone * {zoneSize}) <= {R}.posMax",
         "{L}.zone >= ({R}.posMin / {zoneSize})",
         "{L}.zone <= ({R}.posMax / {zoneSize})"}>>,
      <<{"m_bg", "a_bg", "d_br", "d_b"}, {"m_bg", "a_bg", "d_br", "d_b"},
        {"{L}.biopolymer_id = {R}.biopolymer_id"}>>,
      <<{"m_bg", "a_bg", "d_b"}, {"u_gb", "d_gb"},
        {"{L}.biopolymer_id = {R}.biopolymer_id"}>>,
      <<{"m_g", "a_g", "d_gb", "d_g"}, {"m_g", "a_g", "d_gb", "d_g"},
        {"{L}.group_id = {R}.group_id"}>>,
      <<{"m_g", "a_g", "u_gb", "u_g"}, {"m_g", "a_g", "u_gb", "u_g"},
        {"{L}.group_id = {R}.group_id"}>>,
      <<{"d_g"}, {"d_gb", "d_g"}, {"{L}.group_id = {R}.group_id"}>>,
      <<{"u_g"}, {"u_gb", "u_g"}, {"{L}.group_id = {R}.group_id"}>> }

\* constraints on pairs of aliases that need not be joined directly
_queryAliasPairConditions ==
    { <<{"d_sl"}, {"d_br"},
        {"{L}.chr = {R}.chr",
         "{L}.pos >= ({R}.posMin - {rpMargin})",
         "{L}.pos <= ({R}.posMax + {rpMargin})",
         "({L}.pos + {rpMargin}) >= {R}.posMin",
         "({L}.pos - {rpMargin}) <= {R}.posMax"}>> }

\* output column -> its sources in order of preference
_queryColumnSources ==
    [ snp_label |->
        << [alias |-> "a_s", rowid |-> "rowid", expr |-> "a_s.label", conds |-> {}],
           [alias |-> "m_s", rowid |-> "rowid", expr |-> "m_s.label", conds |-> {}],
           [alias |-> "d_sl", rowid |-> "_ROWID_", expr |-> "'rs'||d_sl.rs", conds |-> {}] >>,
      position_chr |->
        << [alias |-> "a_l", rowid |-> "rowid", expr |-> "(CASE a_l.chr ... END)", conds |-> {}],
           [alias |-> "m_l", rowid |-> "rowid", expr |-> "(CASE m_l.chr ... END)", conds |-> {}],
           [alias |-> "d_sl", rowid |-> "_ROWID_", expr |-> "(CASE d_sl.chr ... END)", conds |-> {}] >>,
      position_pos |->
        << [alias |-> "a_l", rowid |-> "rowid", expr |-> "a_l.pos {pMinOffset}", conds |-> {}],
           [alias |-> "m_l", rowid |-> "rowid", expr |-> "m_l.pos {pMinOffset}", conds |-> {}],
           [alias |-> "d_sl", rowid |-> "_ROWID_", expr |-> "d_sl.pos {pMinOffset}", conds |-> {}] >>,
      gene_label |->
        << [alias |-> "a_bg", rowid |-> "biopolymer_id", expr |-> "a_bg.label", conds |-> {}],
           [alias |-> "m_bg", rowid |-> "biopolymer_id", expr |-> "m_bg.label", conds |-> {}],
           [alias |-> "d_b", rowid |-> "biopolymer_id", expr |-> "d_b.label",
            conds |-> {"d_b.type_id+0 = {typeID_gene}"}] >>,
      group_id |->
        << [alias |-> "a_g", rowid |-> "group_id", expr |-> "a_g.group_id", conds |-> {}],
           [alias |-> "m_g", rowid |-> "group_id", expr |-> "m_g.group_id", conds |-> {}],
           [alias |-> "u_gb", rowid |-> "group_id", expr |-> "u_gb.group_id", conds |-> {}],
           [alias |-> "u_g", rowid |-> "group_id", expr |-> "u_g.group_id", conds |-> {}],
           [alias |-> "d_gb", rowid |-> "group_id", expr |-> "d_gb.group_id", conds |-> {}],
           [alias |-> "d_g", rowid |-> "group_id", expr |-> "d_g.group_id", conds |-> {}] >>,
      group_label |->
        << [alias |-> "a_g", rowid |-> "group_id", expr |-> "a_g.label", conds |-> {}],
           [alias |-> "m_g", rowid |-> "group_id", expr |-> "m_g.label", conds |-> {}],
           [alias |-> "u_g", rowid |-> "group_id", expr |-> "u_g.label", conds |-> {}],
           [alias |-> "d_g", rowid |-> "group_id", expr |-> "d_g.label", conds |-> {}] >>,
      disease_label |->
        << [alias |-> "a_g", rowid |-> "group_id", expr |-> "(SELECT name ... = a_g.group_id ...)", conds |-> {}],
           [alias |-> "m_g", rowid |-> "group_id", expr |-> "(SELECT name ... = m_g.group_id ...)", conds |-> {}],
           [alias |-> "d_g", rowid |-> "group_id", expr |-> "(SELECT name ... = d_g.group_id ...)", conds |-> {}] >> ]

\* the label columns, one for each kind of annotation
LabelColumns == {"snp_label", "gene_label", "group_label", "disease_label"}

\* the requests of this section: up to MaxSelect of the label columns
Selects == UNION { [1 .. n -> LabelColumns] : n \in 1 .. MaxSelect }

\* requests of gene and position columns in every order and number, and of
\* the group id with or without the gene label
ColumnSelects ==
    UNION { [1 .. n -> {"gene_label", "position_chr", "position_pos"}] : n \in 1 .. 3 }
        \cup { <<"group_id">>, <<"group_id", "gene_label">>, <<"gene_label", "group_id">> }

\* a condition with its alias(es) filled in; a condition that names its
\* alias outright has that alias as L
Condition(c, L, R) == [cond |-> c, L |-> L, R |-> R]

\* knowFilter as the set of (db, table) it holds true: all knowledge tables,
\* or with user knowledge the user's tables in place of the knowledge tables
\* of the same name
knowFilter(userKnowledge) ==
    LET tables(db) == { _queryAliasTable[a][2] :
                          a \in { b \in DOMAIN _queryAliasTable : _queryAliasTable[b][1] = db } }
    IN  IF userKnowledge
        THEN { <<"db", t>> : t \in tables("db") \ tables("user") }
               \cup { <<"user", t>> : t \in tables("user") \cap tables("db") }
        ELSE { <<"db", t>> : t \in tables("db") }

\* aliasAdjacent as the set of its (alias, adjacent alias): two different
\* aliases of one join condition, both passing the knowledge or the join
\* filter
aliasAdjacent(passing) ==
    LET key(a) == <<_queryAliasTable[a][1],
                    IF _queryAliasTable[a][2] = "region_zone" THEN "region" ELSE _queryAliasTable[a][2]>>
        joined(a, b) == /\ a # b
                        /\ key(a) \in passing
                        /\ key(b) \in passing
                        /\ \E jc \in _queryAliasJoinConditions :
                              \/ a \in jc[1] /\ b \in jc[2]
                              \/ b \in jc[1] /\ a \in jc[2]
    IN  UNION { { <<a, b>> : b \in { c \in DOMAIN _queryAliasTable : joined(a, c) } } :
                a \in DOMAIN _queryAliasTable }

\* columnAliases: requested column -> its available sources' aliases, in
\* order of preference (empty: the column is no key of the map)
columnAliases(select, adj) ==
    [ col \in Range(select) |->
        LET available(s) == \E p \in adj : p[1] = s.alias
            picked == SelectSeq(_queryColumnSources[col], available)
        IN  [ i \in 1 .. Len(picked) |-> picked[i].alias ] ]

\* aliasColumns: alias -> the requested columns it is an available source of
aliasColumns(colAliases) ==
    [ a \in DOMAIN _queryAliasTable |->
        { col \in DOMAIN colAliases : a \in Range(colAliases[col]) } ]

RECURSIVE Search(_, _, _)
\* the breadth-first search of buildQuery over (inside, outside, remaining):
\* an alias outside that joins with one inside is taken in and takes
\* covers[alias] off what remains.  The queue is searched one depth at a
\* time; the result is the set of entries the loop can stop at (the order of
\* one depth follows the iteration order of sets), empty when the queue
\* runs out
Search(queue, adj, covers) ==
    IF queue = {} THEN {}
    ELSE IF \E s \in queue : s.remaining = {}
         THEN { s \in queue : s.remaining = {} }
         ELSE Search(UNION { { [inside    |-> s.inside \cup {a},
                                outside   |-> s.outside \ {a},
                                remaining |-> s.remaining \ covers[a]] :
                                 a \in { b \in s.outside : \E c \in s.inside : <<b, c>> \in adj } } :
                             s \in queue },
                     adj, covers)

FirstSource(passing) == passing[1].alias

\* the alias the loop of 2993-2996 ends with: each source that passes the
\* knowledge filter overwrites the one before
LastSource(passing) == passing[Len(passing)].alias

\* the primary aliases of a query: those of the where conditions and those
\* of the non-empty input tables of the focus; with neither, the last
\* source of the first column that passes the knowledge filter, and when no
\* source passes, whatever alias the loop over _queryAliasTable ended on
StartingFrom(mode, focus, select, where, fromFilter, know) ==
    LET alternate_model_filtering == "no"   \* the option's default
        db(a) == _queryAliasTable[a][1]
        table(a) == _queryAliasTable[a][2]
        listed(a) == /\ <<db(a), IF table(a) = "region_zone" THEN "region" ELSE table(a)>> \in fromFilter
                     /\ \/ db(a) = focus
                        \/ /\ db(a) = "main" /\ focus = "alt" /\ mode # "annotate"
                           /\ alternate_model_filtering # "yes"
        passes(s) == _queryAliasTable[s.alias] \in know
        LastResort(passing) ==
            IF passing # <<>> THEN { {LastSource(passing)} }
            ELSE { {a} : a \in DOMAIN _queryAliasTable }
        Start(from) ==
            IF from # {} THEN {from}
            ELSE LastResort(SelectSeq(_queryColumnSources[select[1]], passes))
    IN  Start({ w[1] : w \in where } \cup { a \in DOMAIN _queryAliasTable : listed(a) })

NotJoinedFrom(from, adj) == { [ok |-> TRUE, FROM |-> from] }

\* the aliases added to join the primary aliases with each other, started
\* from any one of them: [ok, FROM], ok false when no join path exists
JoinedFrom(from, adj) ==
    LET Outcome(found) ==
            IF found = {} THEN { [ok |-> FALSE, FROM |-> from] }
            ELSE { [ok |-> TRUE, FROM |-> from \cup s.inside] : s \in found }
    IN  IF Cardinality(from) > 1
        THEN UNION { Outcome(Search({ [inside    |-> {first},
                                       outside   |-> { p[1] : p \in adj } \ {first},
                                       remaining |-> from \ {first}] },
                                    adj, [a \in DOMAIN _queryAliasTable |-> {a}])) :
                     first \in from }
        ELSE { [ok |-> TRUE, FROM |-> from] }

NoFilterSources(from, know, adj, covers, columnsRemaining) == { [ok |-> TRUE, FROM |-> from] }

\* filter mode: the aliases added to FROM so that every remaining column
\* has a source, grown over the knowledge tables
FilterSources(from, know, adj, covers, columnsRemaining) ==
    LET Outcome(found) ==
            IF found = {} THEN { [ok |-> FALSE, FROM |-> from] }
            ELSE { [ok |-> TRUE, FROM |-> from \cup s.inside] : s \in found }
    IN  IF columnsRemaining # {}
        THEN Outcome(Search({ [inside    |-> from,
                               outside   |-> { a \in DOMAIN _queryAliasTable \ from :
                                                 \/ _queryAliasTable[a] \in know
                                                 \/ _queryAliasTable[a][2] = "region_zone" },
                               remaining |-> columnsRemaining] },
                            adj, covers))
        ELSE { [ok |-> TRUE, FROM |-> from] }

RECURSIVE ShortestPaths(_, _, _)
\* annotate mode: the queue of paths from a source alias, one depth at a
\* time; the paths the search can stop at are those that reach a joined
\* alias first
ShortestPaths(queue, joined, adj) ==
    IF queue = {} THEN {}
    ELSE IF \E path \in queue : path[Len(path)] \in joined
         THEN { path \in queue : path[Len(path)] \in joined }
         ELSE ShortestPaths(UNION { { Append(path, p[2]) :
                                        p \in { pp \in adj : /\ pp[1] = path[Len(path)]
                                                             /\ pp[2] \notin Range(path) } } :
                                    path \in queue },
                            joined, adj)

RECURSIVE LeftJoins(_, _, _, _, _, _)
\* annotate mode: while a column remains, the first such column of the
\* request is joined by a shortest path from its most preferred available
\* source to the tables joined so far, nearest alias first: [ok, joins]
LeftJoins(select, colAliases, adj, from, joins, columnsRemaining) ==
    LET first == CHOOSE i \in 1 .. Len(select) :
                    /\ select[i] \in columnsRemaining
                    /\ \A j \in 1 .. (i - 1) : select[j] \notin columnsRemaining
        added(path) == [ i \in 1 .. (Len(path) - 1) |-> path[Len(path) - i] ]
        covered(path) == UNION { aliasColumns(colAliases)[a] : a \in Range(added(path)) }
        Outcome(paths) ==
            IF paths = {} THEN { [ok |-> FALSE, joins |-> joins] }
            ELSE UNION { LeftJoins(select, colAliases, adj, from, joins \o added(path),
                                   columnsRemaining \ covered(path)) : path \in paths }
    IN  IF columnsRemaining = {} THEN { [ok |-> TRUE, joins |-> joins] }
        ELSE Outcome(ShortestPaths({ <<colAliases[select[first]][1]>> },
                                   from \cup Range(joins), adj))

\* the source a column is selected from: the first of its sources whose
\* alias is in FROM or in LEFT JOIN, as a sequence of one, or of none
SourceOf(col, from, joins) ==
    LET joined(s) == s.alias \in from \cup Range(joins)
        First(picked) == IF picked = <<>> THEN <<>> ELSE <<picked[1]>>
    IN  First(SelectSeq(_queryColumnSources[col], joined))

EarlierJoined(indexLeft, indexRight, aliasLeft, aliasRight) == IF indexLeft > indexRight THEN aliasRight ELSE aliasLeft

\* of two LEFT JOIN aliases, the one whose ON clause takes their conditions
LaterJoined(indexLeft, indexRight, aliasLeft, aliasRight) == IF indexLeft > indexRight THEN aliasLeft ELSE aliasRight

\* where the conditions of a pair of aliases go: "WHERE", the LEFT JOIN
\* alias whose ON clause takes them, or "" when they are not added
JoinTarget(aliasLeft, aliasRight, from, joins) ==
    LET index(a) == CHOOSE i \in 1 .. Len(joins) : joins[i] = a
    IN  IF aliasLeft = aliasRight THEN ""
        ELSE IF aliasLeft \in from /\ aliasRight \in from THEN "WHERE"
        ELSE IF aliasLeft \in from /\ aliasRight \in Range(joins) THEN aliasRight
        ELSE IF aliasLeft \in Range(joins) /\ aliasRight \in from THEN aliasLeft
        ELSE IF aliasLeft \in Range(joins) /\ aliasRight \in Range(joins)
             THEN LaterJoined(index(aliasLeft), index(aliasRight), aliasLeft, aliasRight)
        ELSE ""

\* every condition of the query with the place it is added to: <<"WHERE" or
\* the LEFT JOIN alias, condition>>.  In order: the conditions of the
\* selected sources, the where conditions, the alias conditions, the
\* validated-position condition, the join and pair conditions
Conditions(select, where, from, joins, opts) ==
    LET target(a) == IF a \in from THEN "WHERE" ELSE a
        included == from \cup Range(joins)
        OfSource(s) == { <<target(s.alias), Condition(c, s.alias, "")>> : c \in s.conds }
        OfAlias(ac) == UNION { { <<target(a), Condition(c, a, "")>> : c \in ac[2] } :
                               a \in ac[1] \cap included }
        AddedTo(place, jc, p) == IF place = "" THEN {}
                                 ELSE { <<place, Condition(c, p[1], p[2])>> : c \in jc[3] }
        OfPair(jc) == UNION { AddedTo(JoinTarget(p[1], p[2], from, joins), jc, p) :
                              p \in jc[1] \X jc[2] }
    IN  UNION { OfSource(s) : s \in UNION { Range(SourceOf(col, from, joins)) : col \in Range(select) } }
        \cup { <<"WHERE", Condition(w[2], w[1], "")>> : w \in where }
        \cup UNION { OfAlias(ac) : ac \in _queryAliasConditions }
        \cup ( IF opts.allow_unvalidated_snp_positions # "yes" /\ "d_sl" \in included
               THEN { <<target("d_sl"), Condition("d_sl.validated > 0", "d_sl", "")>> }
               ELSE {} )
        \cup UNION { OfPair(jc) : jc \in _queryAliasJoinConditions \cup _queryAliasPairConditions }

\* Biofilter.buildQuery(mode, focus, select, where=where,
\* userKnowledge=userKnowledge) with the default fromFilter and joinFilter
\* of the input tables in filters, under the options opts and interpreter
\* major version py: the set of its possible outcomes, each the query it
\* returns or the exception it raises.  _rowid is kept as (alias, column)
\* pairs, LEFT_JOIN as the sequence of [alias, on] in the order of adding;
\* startingFROM and joinedFROM keep what FROM was before and after the
\* joining of the primary aliases (the debug output of the code)
buildQuery(mode, focus, select, where, userKnowledge, filters, opts, py) ==
    LET Raise(exception) ==
            { [outcome |-> exception, mode |-> mode, focus |-> focus, select |-> select,
               where |-> where, userKnowledge |-> userKnowledge] }
        Return(starting, joined, from, joins, placed, sources) ==
            { [outcome |-> "returned", mode |-> mode, focus |-> focus, select |-> select,
               where |-> where, userKnowledge |-> userKnowledge,
               startingFROM |-> starting, joinedFROM |-> joined,
               _columns |-> select,
               SELECT |-> [ col \in Range(select) |->
                              IF SourceOf(col, from, joins) = <<>> THEN None
                              ELSE <<SourceOf(col, from, joins)[1].expr>> ],
               _rowid |-> { <<s.alias, s.rowid>> : s \in sources },
               FROM |-> from,
               LEFT_JOIN |-> [ i \in 1 .. Len(joins) |->
                                 [alias |-> joins[i],
                                  on |-> { p[2] : p \in { pp \in placed : pp[1] = joins[i] } }] ],
               WHERE |-> { p[2] : p \in { pp \in placed : pp[1] = "WHERE" } }] }
        Finish(starting, joined, from, joins) ==
            Return(starting, joined, from, joins, Conditions(select, where, from, joins, opts),
                   UNION { Range(SourceOf(col, from, joins)) : col \in Range(select) })
        Annotated(starting, from, lj) ==
            IF lj.ok THEN Finish(starting, from, from, lj.joins)
            ELSE Raise("Exception: could not join source table")
        Filtered(starting, joined, fs) ==
            IF fs.ok THEN Finish(starting, joined, fs.FROM, <<>>)
            ELSE Raise("Exception: could not find a source table for output columns")
        Remaining(colAliases, from) ==
            { col \in DOMAIN colAliases : colAliases[col] # <<>> /\ Range(colAliases[col]) \cap from = {} }
        Joined(know, adj, colAliases, starting, jf) ==
            IF ~jf.ok THEN Raise("Exception: could not find a join path for starting tables")
            ELSE IF mode = "annotate"
            THEN UNION { Annotated(starting, jf.FROM, lj) :
                         lj \in LeftJoins(select, colAliases, adj, jf.FROM, <<>>,
                                          Remaining(colAliases, jf.FROM)) }
            ELSE UNION { Filtered(starting, jf.FROM, fs) :
                         fs \in FilterSources(jf.FROM, know, adj, aliasColumns(colAliases),
                                              Remaining(colAliases, jf.FROM)) }
        Available(know, adj, colAliases) ==
            IF \A col \in DOMAIN colAliases : colAliases[col] = <<>>
            THEN Raise("Exception: internal query with no outputs or conditions")
            ELSE UNION { UNION { Joined(know, adj, colAliases, from, jf) : jf \in JoinedFrom(from, adj) } :
                         from \in StartingFrom(mode, focus, select, where, filters, know) }
        Adjacent(know, adj) == Available(know, adj, columnAliases(select, adj))
        Known(know) == Adjacent(know, aliasAdjacent(know \cup filters))
    IN  IF userKnowledge /\ py = 3
        THEN Raise("AttributeError: 'dict' object has no attribute 'itervalues'")
        ELSE Known(knowFilter(userKnowledge))

\* Biofilter.getQueryText(query): the SELECT list as (expression, column)
\* with NULL for a column that has no expression, FROM, the LEFT JOINs in
\* their order, WHERE
getQueryText(q) ==
    [SELECT |-> [ i \in 1 .. Len(q._columns) |->
                    << IF q.SELECT[q._columns[i]] = None THEN "NULL" ELSE q.SELECT[q._columns[i]][1],
                       q._columns[i] >> ],
     FROM |-> q.FROM,
     LEFT_JOIN |-> q.LEFT_JOIN,
     WHERE |-> q.WHERE]

\* generateFilterOutput / generateAnnotationOutput: the filter query of the
\* requested columns and its text; the second query over user-defined
\* knowledge is built after the first when such knowledge was loaded.  The
\* default fromFilter and joinFilter are the input tables of main, alt and
\* cand that hold rows
buildFilterQuery(select, userKnowledge) ==
    /\ numQueries < MaxQueries
    /\ numQueries' = numQueries + 1
    /\ userKnowledge =>
          /\ <<"user", "source">> \in inputTables
          /\ query.outcome = "returned"
          /\ query.mode = "filter"
          /\ query.where = {}
          /\ ~query.userKnowledge
          /\ query.select = select
    /\ \E q \in buildQuery("filter", "main", select, {}, userKnowledge,
                           { t \in inputTables : t[1] \in {"main", "alt", "cand"} }, _options, python) :
          /\ query' = q
          /\ queryText' = IF q.outcome = "returned" THEN getQueryText(q) ELSE None
    /\ UNCHANGED <<inputTables, _options>>
    /\ UNCHANGED notPlannerVars

\* generateAnnotationOutput after its filter query queryF: the annotation
\* query, restricted to one row of queryF through the row ids of queryF
buildAnnotationQuery(select) ==
    /\ numQueries < MaxQueries
    /\ numQueries' = numQueries + 1
    /\ query.outcome = "returned"
    /\ query.mode = "filter"
    /\ query.where = {}
    /\ ~query.userKnowledge
    /\ \E q \in buildQuery("annotate", "alt", select, query._rowid, FALSE,
                           { t \in inputTables : t[1] \in {"main", "alt", "cand"} }, _options, python) :
          /\ query' = q
          /\ queryText' = IF q.outcome = "returned" THEN getQueryText(q) ELSE None
    /\ UNCHANGED <<inputTables, _options>>
    /\ UNCHANGED notPlannerVars

\* buildQuery('filter', 'main', select, where={column: ...}) called for
\* one output column with a condition on one column of an alias, under the
\* default filters
buildWhereQuery(select, column) ==
    /\ numQueries < MaxQueries
    /\ numQueries' = numQueries + 1
    /\ \E q \in buildQuery("filter", "main", select, {column}, FALSE,
                           { t \in inputTables : t[1] \in {"main", "alt", "cand"} }, _options, python) :
          /\ query' = q
          /\ queryText' = IF q.outcome = "returned" THEN getQueryText(q) ELSE None
    /\ UNCHANGED <<inputTables, _options>>
    /\ UNCHANGED notPlannerVars

\* a session without input, without user knowledge and without a query
PlannerIdle ==
    /\ inputTables = {}
    /\ _options = [allow_unvalidated_snp_positions |-> "yes"]
    /\ query = [outcome |-> "none"]
    /\ queryText = None
    /\ numQueries = 0

InitPlanner ==
    /\ inputTables \in SUBSET { <<"main", "snp">>, <<"alt", "snp">>, <<"user", "source">> }
    /\ _options \in [allow_unvalidated_snp_positions : {"yes", "no"}]
    /\ python \in {2, 3}
    /\ query = [outcome |-> "none"]
    /\ queryText = None
    /\ numQueries = 0

NextPlanner ==
    \/ \E select \in Selects : \E userKnowledge \in BOOLEAN : buildFilterQuery(select, userKnowledge)
    \/ \E select \in Selects : buildAnnotationQuery(select)
    \/ \E col \in LabelColumns :
          \E column \in { <<"d_b", "biopolymer_id">>, <<"u_g", "group_id">> } :
              buildWhereQuery(<<col>>, column)

\* the first filter query of a session for gene, position and group id
\* columns, and the second one over user-defined knowledge
NextPlannerColumns ==
    \/ \E select \in ColumnSelects : numQueries = 0 /\ buildFilterQuery(select, FALSE)
    \/ \E select \in ColumnSelects : buildFilterQuery(select, TRUE)

(***************************************************************************)
(* Claims about the query planner                                          *)
(***************************************************************************)

\* C9: buildQuery aborts with an internal-consistency error whenever a
\* requested output column has no available source under the current
\* knowledge and user filters, and it never returns a query in which a
\* requested column is left without a source.
C9_AbortsWhenColumnHasNoSource ==
    LET InputFilter == { t \in inputTables : t[1] \in {"main", "alt", "cand"} }
        \* the requested columns without an available source
        none(colAliases) == { col \in DOMAIN colAliases : colAliases[col] = <<>> }
        Unsourced(q) ==
            none(columnAliases(q.select, aliasAdjacent(knowFilter(q.userKnowledge) \cup InputFilter)))
        \* the internal-consistency errors buildQuery raises
        PlannerFailures ==
            { "Exception: internal query with no outputs or conditions",
              "Exception: could not find a join path for starting tables",
              "Exception: could not join source table",
              "Exception: could not find a source table for output columns" }
    IN  query.outcome # "none" =>
            /\ Unsourced(query) # {} => query.outcome \in PlannerFailures
            /\ query.outcome = "returned" =>
                  \A col \in Range(query.select) : query.SELECT[col] # None

\* C10: in every query buildQuery returns, a condition in WHERE refers only
\* to FROM aliases; no LEFT JOIN alias is a FROM alias; a condition in the
\* ON clause of a LEFT JOIN alias refers to that alias and otherwise only to
\* FROM aliases and LEFT JOIN aliases added before it; and the conditions of
\* two joined aliases are in WHERE when both are in FROM and otherwise in
\* the ON clause of the one of them that was added last.
C10_PredicatesPlacedByJoinOrder ==
    query.outcome = "returned" =>
        LET lj == query.LEFT_JOIN
            Refers(p) == {p.L, p.R} \ {""}     \* the aliases a condition refers to
            added(i) == query.FROM \cup { lj[j].alias : j \in 1 .. i }
            Placed(jc, L, R) ==
                \A c \in jc[3] :
                    IF {L, R} \subseteq query.FROM
                    THEN Condition(c, L, R) \in query.WHERE
                    ELSE \E i \in 1 .. Len(lj) :
                            /\ lj[i].alias \in {L, R}
                            /\ {L, R} \subseteq added(i)
                            /\ Condition(c, L, R) \in lj[i].on
        IN  /\ \A p \in query.WHERE : Refers(p) \subseteq query.FROM
            /\ \A i \in 1 .. Len(lj) :
                  /\ lj[i].alias \notin query.FROM
                  /\ \A p \in lj[i].on :
                        /\ lj[i].alias \in Refers(p)
                        /\ Refers(p) \subseteq added(i)
            /\ \A jc \in _queryAliasJoinConditions \cup _queryAliasPairConditions :
                  \A L \in jc[1] : \A R \in jc[2] :
                      (L # R /\ {L, R} \subseteq added(Len(lj))) => Placed(jc, L, R)

\* C10 witness: an annotation query with at least two LEFT JOINs, one ON
\* clause holding a condition between its alias and a FROM alias, another
\* holding a condition between its alias and an earlier LEFT JOIN alias
C10_Witness ==
    /\ query.outcome = "returned"
    /\ query.mode = "annotate"
    /\ Len(query.LEFT_JOIN) >= 2
    /\ query.WHERE # {}
    /\ \E i \in 1 .. Len(query.LEFT_JOIN) : \E p \in query.LEFT_JOIN[i].on :
          {p.L, p.R} \cap query.FROM # {}
    /\ \E i \in 1 .. Len(query.LEFT_JOIN) : \E j \in 1 .. (i - 1) :
          \E p \in query.LEFT_JOIN[i].on :
              {p.L, p.R} = {query.LEFT_JOIN[i].alias, query.LEFT_JOIN[j].alias}

\* C11: whenever buildQuery starts from more than one FROM alias, the FROM
\* set it goes on with contains every starting alias and is connected in
\* the pruned adjacency graph, each alias added to join them being adjacent
\* to the component built so far; when the starting aliases cannot be
\* connected, buildQuery aborts instead of returning a query.
C11_StartingTablesJoined ==
    LET filters == { t \in inputTables : t[1] \in {"main", "alt", "cand"} }
        know == knowFilter(query.userKnowledge)
        adj == aliasAdjacent(know \cup filters)
        RECURSIVE Component(_, _)
        \* what grows from the aliases inside over adjacent aliases of within
        Component(inside, within) ==
            LET next == inside \cup { a \in within : \E c \in inside : <<a, c>> \in adj }
            IN  IF next = inside THEN inside ELSE Component(next, within)
        Connected(from) == \A a \in from : Component({a}, from) = from
        Connectable(from) == \A a \in from : from \subseteq Component({a}, DOMAIN _queryAliasTable)
        Starts == StartingFrom(query.mode, query.focus, query.select, query.where, filters, know)
    IN  query.outcome \notin {"none", "AttributeError: 'dict' object has no attribute 'itervalues'"} =>
            /\ (query.outcome = "returned" /\ Cardinality(query.startingFROM) > 1) =>
                  /\ query.startingFROM \subseteq query.joinedFROM
                  /\ query.joinedFROM \subseteq query.FROM
                  /\ Connected(query.joinedFROM)
            /\ (\E from \in Starts : Cardinality(from) > 1 /\ ~Connectable(from)) =>
                  query.outcome # "returned"

\* C11 witness: a returned query that started from two aliases or more and
\* took further aliases into FROM to join them
C11_Witness ==
    /\ query.outcome = "returned"
    /\ Cardinality(query.startingFROM) > 1
    /\ query.joinedFROM # query.startingFROM

\* a filter query on main for the gene label and the two position columns,
\* in any order, in a session whose only main input is the SNP table
GenePositionQuery ==
    /\ query.outcome \notin {"none"}
    /\ query.mode = "filter" /\ query.focus = "main"
    /\ ~query.userKnowledge
    /\ Range(query.select) = {"gene_label", "position_chr", "position_pos"}
    /\ <<"main", "snp">> \in inputTables

\* C26: a filter query on main for gene_label, position_chr and position_pos
\* with only the SNP filter loaded is returned with FROM = {m_s, d_sl, d_bz,
\* d_br, d_b} and no LEFT JOIN: it starts from m_s alone, takes the positions
\* from d_sl and the gene label from d_b, and d_sl is joined to d_bz, d_bz
\* to d_br and d_br to d_b
C26_GeneReachedThroughZones ==
    GenePositionQuery =>
        /\ query.outcome = "returned"
        /\ query.startingFROM = {"m_s"}
        /\ query.FROM = {"m_s", "d_sl", "d_bz", "d_br", "d_b"}
        /\ query.LEFT_JOIN = <<>>
        /\ \A col \in {"position_chr", "position_pos"} :
              query.SELECT[col] = <<_queryColumnSources[col][3].expr>>
        /\ query.SELECT["gene_label"] = <<"d_b.label">>
        /\ \A p \in { <<"m_s", "d_sl">>, <<"d_sl", "d_bz">>, <<"d_bz", "d_br">>, <<"d_br", "d_b">> } :
              \E c \in query.WHERE : c.L = p[1] /\ c.R = p[2]

C26_Witness ==
    /\ GenePositionQuery
    /\ query.outcome = "returned"
    /\ query.select = <<"gene_label", "position_chr", "position_pos">>
    /\ inputTables = { <<"main", "snp">> }
    /\ "d_b" \in query.FROM

\* a filter query without where conditions in a session without main input:
\* no alias qualifies for the starting FROM set
SeededQuery ==
    /\ query.outcome = "returned"
    /\ query.where = {}
    /\ <<"main", "snp">> \notin inputTables

\* the sources of the first requested column whose table passes the
\* knowledge filter, in the order of the source list
SeedSources ==
    LET passes(s) == _queryAliasTable[s.alias] \in knowFilter(query.userKnowledge)
    IN  SelectSeq(_queryColumnSources[query.select[1]], passes)

\* C27 as stated: with no alias qualifying, the starting FROM set is the
\* highest-priority source of the first requested column whose table is an
\* enabled knowledge table
C27_SeededWithFirstSource ==
    SeededQuery /\ SeedSources # <<>> => query.startingFROM = {SeedSources[1].alias}

\* C27: with no alias qualifying, the starting FROM set is the last entry of
\* the first requested column's source list whose table is an enabled
\* knowledge table, the source of lowest priority among them
C27_SeededWithLastSource ==
    SeededQuery /\ SeedSources # <<>> =>
        query.startingFROM = {SeedSources[Len(SeedSources)].alias}

C27_Witness ==
    /\ SeededQuery
    /\ query.select[1] = "group_id"
    /\ Len(SeedSources) = 2
    /\ query.startingFROM = {"d_g"}

(***************************************************************************)
(* The output generators (biofilter.py).  A generator is a function of the *)
(* options and of the rows its queries return; a session of this section   *)
(* makes one generator call, over any results the queries can give.        *)
(***************************************************************************)

MaxFilterIDs == 2    \* row ids 1..MaxFilterIDs of the filter query's source
MaxFilterRows == 3   \* rows the filter query returns
MaxAnnotRows == 2    \* rows the annotation query returns for one filter row

\* a row of sqlF = getQueryText(queryF, splitRowIDs=True) for the source row
\* id: the one selected column (which here shows the id), _rowid_0, _rowid
FilterRow(id) == <<id, <<id>>, <<id>>>>

\* a row of sqlA = getQueryText(queryA, noRowIDs=True, sortRowIDs=True,
\* splitRowIDs=True): one column per LEFT JOINed source, NULL (None) where
\* the source has no row, then _rowid_0 and _rowid_1, COALESCEd to '' (None)
AnnotationRow(rowidA) == rowidA \o rowidA

\* what the filter query can return
FilterResults ==
    UNION { [1 .. n -> { FilterRow(id) : id \in 1 .. MaxFilterIDs }] : n \in 0 .. MaxFilterRows }

\* what the annotation query can return for one filter row: rows in ORDER BY
\* (_rowid_0 IS NULL), (_rowid_1 IS NULL), rows of one rank in any order
AnnotationResults ==
    LET RowIDs == { <<a, b>> : a \in {None, <<1>>, <<2>>}, b \in {None, <<1>>} }
        rank(row) == (IF row[3] = None THEN 2 ELSE 0) + (IF row[4] = None THEN 1 ELSE 0)
        sorted(rows) == \A j \in 1 .. (Len(rows) - 1) : rank(rows[j]) <= rank(rows[j + 1])
        AnyOrder == UNION { [1 .. n -> { AnnotationRow(r) : r \in RowIDs }] : n \in 0 .. MaxAnnotRows }
    IN  { rows \in AnyOrder : sorted(rows) }

NoRowIDProduct(rowidA) == {}

\* itertools.product(*( (v,) if v == '' else (v,'') for v in rowidA )): the
\* row ids that rowidA stands for, itself and those with '' in its place
RowIDProduct(rowidA) ==
    { ids \in [1 .. Len(rowidA) -> Range(rowidA) \cup {None}] :
        \A c \in 1 .. Len(rowidA) : ids[c] \in {rowidA[c], None} }

\* generateAnnotationOutput with debug_query off, after its header: the
\* rows it yields over the rows resultsF of the filter query and the rows
\* resultsA[id] that the annotation query returns when bound to the filter
\* row id.  Each row is kept with the index f of the filter row and a of the
\* annotation row it came from (a = 0: the row of empty annotation columns)
AnnotationOutput(allow_duplicate_output, resultsF, resultsA) ==
    LET lenF == 1
        lenA == 2
        emptyA == [c \in 1 .. lenA |-> None]
        rowidOf(rowA) == SubSeq(rowA, lenA + 1, Len(rowA))
        Yield(rowF, rowA, f, a) == << [row |-> SubSeq(rowF, 1, lenF) \o rowA, f |-> f, a |-> a] >>
        RECURSIVE foreachA(_, _, _, _, _)
        foreachA(rowF, f, rowsA, a, idsA) ==
            IF a > Len(rowsA)
            THEN IF idsA = {} THEN Yield(rowF, emptyA, f, 0) ELSE <<>>
            ELSE IF rowidOf(rowsA[a]) \notin idsA
                 THEN Yield(rowF, SubSeq(rowsA[a], 1, lenA), f, a)
                      \o foreachA(rowF, f, rowsA, a + 1, idsA \cup RowIDProduct(rowidOf(rowsA[a])))
                 ELSE foreachA(rowF, f, rowsA, a + 1, idsA)
        last(rowF) == rowF[Len(rowF)]
        RECURSIVE foreachF(_, _)
        foreachF(f, lastF) ==
            IF f > Len(resultsF) THEN <<>>
            ELSE IF allow_duplicate_output = "yes" /\ lastF = <<last(resultsF[f])>>
                 THEN foreachF(f + 1, lastF)
                 ELSE foreachA(resultsF[f], f, resultsA[resultsF[f][lenF + 1][1]], 1, {})
                      \o foreachF(f + 1, <<last(resultsF[f])>>)
    IN  foreachF(1, None)

\* a call of generateAnnotationOutput under either setting of the option,
\* its queries returning any results
generateAnnotationOutput ==
    /\ generated.op = "none"
    /\ \E allow_duplicate_output \in {"yes", "no"} : \E resultsF \in FilterResults :
          \E resultsA \in [1 .. MaxFilterIDs -> AnnotationResults] :
              generated' = [op |-> "generateAnnotationOutput",
                            allow_duplicate_output |-> allow_duplicate_output,
                            resultsF |-> resultsF, resultsA |-> resultsA,
                            yielded |-> AnnotationOutput(allow_duplicate_output, resultsF, resultsA)]
    /\ UNCHANGED notOutputVars

MaxFeatures == 7    \* PARIS feature regions
MaxBinSize == 3     \* option PARIS_BIN_SIZE

\* the binning step of generatePARISResults under interpreter major version
\* py.  listFeatures is the master list after the shuffles, which put the
\* features of one size in any order: this model names a feature by its
\* place in that list, and featureData[f] is its size, the number of loci
\* in it.  The outcome is featureBin and binFeatures, or the exception
PARISBins(featureData, paris_bin_size, py) ==
    LET listFeatures == [f \in 1 .. Len(featureData) |-> f]
        RECURSIVE popped(_, _)
        \* how many features the while loop of bin b pops off the end of list
        popped(list, b) ==
            IF list # <<>> /\ featureData[list[Len(list)]] = b
            THEN 1 + popped(SubSeq(list, 1, Len(list) - 1), b)
            ELSE 0
        \* the last n of list in the order of popping
        pop(list, n) == [i \in 1 .. n |-> list[Len(list) + 1 - i]]
        after(list, n) == SubSeq(list, 1, Len(list) - n)
        max(a, b) == IF a >= b THEN a ELSE b
        Returned(bins) ==
            [outcome |-> "returned",
             binFeatures |-> [b \in { c \in DOMAIN bins : bins[c] # <<>> } |-> bins[b]],
             featureBin |-> [f \in 1 .. Len(featureData) |->
                               CHOOSE b \in DOMAIN bins : f \in Range(bins[b])]]
        \* the remaining features go to bins 2 .. 1 + count
        Distributed(bin0, bin1, rest, count, size, extra) ==
            LET length(b) == size + (IF (b - 2) < extra THEN 1 ELSE 0)
                RECURSIVE before(_)
                before(b) == IF b = 2 THEN 0 ELSE before(b - 1) + length(b - 1)
            IN  Returned([b \in 0 .. (1 + count) |->
                            IF b = 0 THEN bin0
                            ELSE IF b = 1 THEN bin1
                            ELSE pop(after(rest, before(b)), length(b))])
        Remaining(bin0, bin1, rest, count) ==
            IF py = 3    \* size is a float, which range() refuses
            THEN [outcome |-> "TypeError: 'float' object cannot be interpreted as an integer"]
            ELSE Distributed(bin0, bin1, rest, count, Len(rest) \div count,
                             Len(rest) - (count * (Len(rest) \div count)))
        Ones(bin0, list, n) ==
            Remaining(bin0, pop(list, n), after(list, n),
                      max(1, (2 * Len(after(list, n)) + paris_bin_size) \div (2 * paris_bin_size)))
        Zeros(list, n) == Ones(pop(list, n), after(list, n), popped(after(list, n), 1))
    IN  Zeros(listFeatures, popped(listFeatures, 0))

\* generatePARISResults up to its bins, over any feature regions with any
\* numbers of loci in them
generatePARISResults ==
    /\ generated.op = "none"
    /\ \E n \in 0 .. MaxFeatures : \E featureData \in [1 .. n -> {0, 1, 2, 3, 5, 8}] :
          \E paris_bin_size \in 1 .. MaxBinSize :
              /\ \A f \in 1 .. (n - 1) : featureData[f] >= featureData[f + 1]
              /\ generated' = [op |-> "generatePARISResults", featureData |-> featureData,
                               paris_bin_size |-> paris_bin_size,
                               bins |-> PARISBins(featureData, paris_bin_size, python)]
    /\ UNCHANGED notOutputVars

MaxBinned == 3          \* features in the bins of one permutation test
MaxPermutations == 2    \* option PARIS_PERMUTATION_COUNT
MaxScore == 2           \* maxScore, from option PARIS_MAX_P_VALUE

_sampleAny(population, k) == SUBSET population

\* random.sample(population, k) of a list without repeats: the features of
\* any k of its places
_sample(population, k) == { drawn \in SUBSET population : Cardinality(drawn) = k }

\* getPARISPermutationScore: the outcomes the random draws can give, each
\* the score returned with what the permutations drew from every bin.
\* featureData[f] is (size, significant), binFeatures[b] the features of bin
\* b; maxScore 0 stands for None as well
PARISPermutationScore(featureData, featureBin, binFeatures, realFeatures, numPermutations, maxScore) ==
    LET counted == { f \in realFeatures : featureBin[f] # 0 }
        realScore == Cardinality({ f \in counted : featureData[f][2] })
        binDraws == [b \in { featureBin[f] : f \in counted } |->
                       Cardinality({ f \in counted : featureBin[f] = b })]
        Draws == { draw \in [DOMAIN binDraws -> SUBSET (DOMAIN featureBin)] :
                     \A b \in DOMAIN binDraws : draw[b] \in _sample(binFeatures[b], binDraws[b]) }
        permScore(draw) ==
            Cardinality({ bf \in UNION { { <<b, f>> : f \in draw[b] } : b \in DOMAIN draw } :
                            featureData[bf[2]][2] })
        Outcome(totalScore, drawn) == [score |-> totalScore, drawn |-> drawn]
        RECURSIVE Permute(_, _, _)
        Permute(p, totalScore, drawn) ==
            IF p = numPermutations THEN { Outcome(totalScore, drawn) }
            ELSE UNION { IF permScore(draw) >= realScore
                         THEN IF maxScore # 0 /\ totalScore + 1 >= maxScore
                              THEN { Outcome(totalScore + 1, Append(drawn, draw)) }
                              ELSE Permute(p + 1, totalScore + 1, Append(drawn, draw))
                         ELSE Permute(p + 1, totalScore, Append(drawn, draw)) :
                         draw \in Draws }
    IN  IF realScore < 1 THEN { Outcome(numPermutations, <<>>) }
        ELSE Permute(0, 0, <<>>)

\* a call of getPARISPermutationScore over any bins of features, any of
\* which with loci can be significant, and any set of real features
getPARISPermutationScore ==
    /\ generated.op = "none"
    /\ \E featureBin \in [1 .. MaxBinned -> 0 .. 2] : \E sig \in SUBSET (1 .. MaxBinned) :
          \E realFeatures \in SUBSET (1 .. MaxBinned) :
          \E numPermutations \in 0 .. MaxPermutations : \E maxScore \in 0 .. MaxScore :
              LET featureData == [f \in 1 .. MaxBinned |-> <<featureBin[f], f \in sig>>]
                  binFeatures == [b \in 0 .. 2 |-> { f \in 1 .. MaxBinned : featureBin[f] = b }]
              IN  /\ \A f \in sig : featureBin[f] # 0
                  /\ \E result \in PARISPermutationScore(featureData, featureBin, binFeatures,
                                                          realFeatures, numPermutations, maxScore) :
                        generated' = [op |-> "getPARISPermutationScore", featureData |-> featureData,
                                      featureBin |-> featureBin, binFeatures |-> binFeatures,
                                      realFeatures |-> realFeatures,
                                      numPermutations |-> numPermutations, maxScore |-> maxScore,
                                      totalScore |-> result.score, drawn |-> result.drawn]
    /\ UNCHANGED notOutputVars

\* no generator called yet
MaxPosition == 3    \* positions 1 .. MaxPosition in the user's text

\* generateLociFromText: offset
LocusOffset(coordinate_base, applyOffset) ==
    IF applyOffset THEN 1 - coordinate_base ELSE 0

\* generateRegionsFromText: offsetStart and offsetEnd
RegionOffsets(coordinate_base, regions_half_open, applyOffset) ==
    LET offset == IF applyOffset THEN 1 - coordinate_base ELSE 0
    IN  [offsetStart |-> offset,
         offsetEnd   |-> IF applyOffset /\ regions_half_open = "yes" THEN offset - 1 ELSE offset]

QueryOffsetsUnset(coordinate_base, regions_half_open, applyOffset) ==
    [pMinOffset |-> None, pMaxOffset |-> None]

\* buildQuery: options['pMinOffset'] and options['pMaxOffset'], None for the
\* empty string and <<k>> for '+ k'
QueryOffsets(coordinate_base, regions_half_open, applyOffset) ==
    [pMinOffset |-> IF applyOffset /\ coordinate_base # 1
                    THEN <<coordinate_base - 1>> ELSE None,
     pMaxOffset |-> IF applyOffset /\ (coordinate_base # 1 \/ regions_half_open = "yes")
                    THEN <<coordinate_base - 1 + (IF regions_half_open = "yes" THEN 1 ELSE 0)>>
                    ELSE None]

\* generateFilterOutput(['position', 'region'], applyOffset=True) of a locus
\* and a region that were read from the user's text with applyOffset=True,
\* under any coordinate options: the columns position_pos ("pos
\* {pMinOffset}"), region_start ("posMin {pMinOffset}") and region_stop
\* ("posMax {pMaxOffset}") of the stored row
generateFilterOutput ==
    /\ generated.op = "none"
    /\ \E coordinate_base \in {0, 1}, regions_half_open \in {"yes", "no"} :
       \E text \in [pos : 1 .. MaxPosition, posMin : 1 .. MaxPosition, posMax : 1 .. MaxPosition] :
          LET offs    == RegionOffsets(coordinate_base, regions_half_open, TRUE)
              stored  == [pos    |-> text.pos + LocusOffset(coordinate_base, TRUE),
                          posMin |-> text.posMin + offs.offsetStart,
                          posMax |-> text.posMax + offs.offsetEnd]
              options == QueryOffsets(coordinate_base, regions_half_open, TRUE)
              expr(column, offset) == IF offset = None THEN column ELSE column + offset[1]
          IN  generated' = [op |-> "generateFilterOutput",
                            coordinate_base |-> coordinate_base,
                            regions_half_open |-> regions_half_open,
                            text |-> text,
                            stored |-> stored,
                            output |-> [position_pos |-> expr(stored.pos, options.pMinOffset),
                                        region_start |-> expr(stored.posMin, options.pMinOffset),
                                        region_stop  |-> expr(stored.posMax, options.pMaxOffset)]]
    /\ UNCHANGED notOutputVars

OutputIdle == generated = [op |-> "none"]

NextOutput ==
    \/ generateAnnotationOutput
    \/ generatePARISResults
    \/ getPARISPermutationScore
    \/ generateFilterOutput

(***************************************************************************)
(* Claims about annotation output                                          *)
(***************************************************************************)

\* C12 as stated: in annotation output no filter row is dropped: every row
\* the filter query returns yields at least one output row, one per retained
\* annotation match, or exactly one row whose annotation columns are all
\* null when the annotation query returns no row for it.
C12_NoFilterRowDropped ==
    generated.op = "generateAnnotationOutput" =>
        LET out == generated.yielded
            rowsA(f) == generated.resultsA[generated.resultsF[f][2][1]]
            Of(f) == { n \in 1 .. Len(out) : out[n].f = f }
        IN  \A f \in 1 .. Len(generated.resultsF) :
                /\ Of(f) # {}
                /\ \A n \in Of(f) : SubSeq(out[n].row, 1, 1) = SubSeq(generated.resultsF[f], 1, 1)
                /\ rowsA(f) = <<>> =>
                      /\ Cardinality(Of(f)) = 1
                      /\ \A n \in Of(f) : out[n].a = 0 /\ SubSeq(out[n].row, 2, 3) = <<None, None>>
                /\ rowsA(f) # <<>> =>
                      /\ \A n \in Of(f) :
                            /\ out[n].a \in 1 .. Len(rowsA(f))
                            /\ SubSeq(out[n].row, 2, 3) = SubSeq(rowsA(f)[out[n].a], 1, 2)
                      /\ \A n, m \in Of(f) : out[n].a = out[m].a => n = m

\* C12 as the code has it: when duplicate output is allowed, a filter row
\* whose row-id composite is that of the filter row before it yields no
\* output row; every other filter row yields at least one output row, one
\* per retained annotation match (an annotation row is retained unless an
\* earlier row of the same filter row has its row ids, or has them wherever
\* it is not null), or exactly one row whose annotation columns are all null
\* when the annotation query returns no row for it.
C12_FilterRowsAnnotated ==
    generated.op = "generateAnnotationOutput" =>
        LET out == generated.yielded
            resultsF == generated.resultsF
            rowsA(f) == generated.resultsA[resultsF[f][2][1]]
            Of(f) == { n \in 1 .. Len(out) : out[n].f = f }
            repeated(f) == /\ generated.allow_duplicate_output = "yes"
                           /\ f > 1
                           /\ resultsF[f][3] = resultsF[f - 1][3]
            rowid(rowA) == SubSeq(rowA, 3, 4)
            stands(early, late) == \A c \in 1 .. 2 : late[c] \in {early[c], None}
            retained(f, a) == \A e \in 1 .. (a - 1) : ~stands(rowid(rowsA(f)[e]), rowid(rowsA(f)[a]))
        IN  \A f \in 1 .. Len(resultsF) :
                IF repeated(f) THEN Of(f) = {}
                ELSE /\ Of(f) # {}
                     /\ \A n \in Of(f) : SubSeq(out[n].row, 1, 1) = SubSeq(resultsF[f], 1, 1)
                     /\ rowsA(f) = <<>> =>
                           /\ Cardinality(Of(f)) = 1
                           /\ \A n \in Of(f) : out[n].a = 0 /\ SubSeq(out[n].row, 2, 3) = <<None, None>>
                     /\ rowsA(f) # <<>> =>
                           /\ { out[n].a : n \in Of(f) } = { a \in 1 .. Len(rowsA(f)) : retained(f, a) }
                           /\ \A n \in Of(f) : SubSeq(out[n].row, 2, 3) = SubSeq(rowsA(f)[out[n].a], 1, 2)
                           /\ \A n, m \in Of(f) : out[n].a = out[m].a => n = m

\* C12 witness: duplicate output allowed; one filter row without annotation
\* rows gives the row of nulls, another has an annotation row that is not
\* retained, and a third repeats the row before it and gives nothing
C12_Witness ==
    /\ generated.op = "generateAnnotationOutput"
    /\ generated.allow_duplicate_output = "yes"
    /\ Len(generated.resultsF) = 3
    /\ \E n \in 1 .. Len(generated.yielded) : generated.yielded[n].a = 0
    /\ \E f \in 1 .. 3 :
          Cardinality({ n \in 1 .. Len(generated.yielded) : generated.yielded[n].f = f })
              \in 1 .. (Len(generated.resultsA[generated.resultsF[f][2][1]]) - 1)
    /\ \E f \in 1 .. 3 : \A n \in 1 .. Len(generated.yielded) : generated.yielded[n].f # f

\* C13: when duplicate output is not allowed, annotation output contains no
\* two rows with the same (filter row-id, annotation row-id) pair, also when
\* the filter query returns the same row-id composite more than once.
C13_NoDuplicatePairs ==
    (generated.op = "generateAnnotationOutput" /\ generated.allow_duplicate_output = "no") =>
        LET out == generated.yielded
            rowidF(n) == generated.resultsF[out[n].f][3]
            rowsA(n) == generated.resultsA[generated.resultsF[out[n].f][2][1]]
            rowidA(n) == IF out[n].a = 0 THEN None ELSE <<SubSeq(rowsA(n)[out[n].a], 3, 4)>>
        IN  \A n, m \in 1 .. Len(out) :
                (rowidF(n) = rowidF(m) /\ rowidA(n) = rowidA(m)) => n = m

(***************************************************************************)
(* Claims about PARIS                                                      *)
(***************************************************************************)

\* C14: PARIS binning puts all features with count 0 in one bin and all
\* features with count 1 in another, and distributes the remaining n
\* features into ceil(n / paris_bin_size) bins whose sizes differ by at most
\* one, every feature ending in exactly one bin; features with counts
\* {0,0,1,2,3,5,8} and bin_size = 3 give the zero bin, the one bin and two
\* equal bins of two features.
C14_BinsOfCeilingCount ==
    generated.op = "generatePARISResults" =>
        LET featureData == generated.featureData
            Features == 1 .. Len(featureData)
            With(c) == { f \in Features : featureData[f] = c }
            n == Cardinality({ f \in Features : featureData[f] > 1 })
            ceil == (n + generated.paris_bin_size - 1) \div generated.paris_bin_size
            binFeatures == generated.bins.binFeatures
            Others == DOMAIN binFeatures \ {0, 1}
            In(b) == IF b \in DOMAIN binFeatures THEN Range(binFeatures[b]) ELSE {}
        IN  /\ generated.bins.outcome = "returned"
            /\ In(0) = With(0)
            /\ In(1) = With(1)
            /\ Cardinality(Others) = ceil
            /\ \A b, c \in Others : Len(binFeatures[b]) - Len(binFeatures[c]) \in {-1, 0, 1}
            /\ \A f \in Features :
                  Cardinality({ b \in DOMAIN binFeatures :
                                  \E i \in 1 .. Len(binFeatures[b]) : binFeatures[b][i] = f }) = 1
            /\ \A b \in DOMAIN binFeatures :
                  \A i, j \in 1 .. Len(binFeatures[b]) : binFeatures[b][i] = binFeatures[b][j] => i = j
            /\ (featureData = <<8, 5, 3, 2, 1, 0, 0>> /\ generated.paris_bin_size = 3) =>
                  /\ Cardinality(Others) = 2
                  /\ \A b \in Others : Len(binFeatures[b]) = 2

\* C15 as stated: getPARISPermutationScore returns the number of
\* permutations whose score is >= the observed score, each permutation
\* drawing from every bin, without replacement, exactly as many features as
\* the real feature set has in that bin, never more than the bin holds; it
\* stops at the first moment maxScore successes have been reached, so with
\* maxScore > 0 the returned count never exceeds maxScore, and it never
\* exceeds numPermutations.
C15_ScoreWithinMaxScore ==
    generated.op = "getPARISPermutationScore" =>
        LET g == generated
            sig(f) == g.featureData[f][2]
            real(b) == { f \in g.realFeatures : g.featureBin[f] = b }
            realScore == Cardinality({ f \in g.realFeatures : sig(f) })
            permScore(draw) == Cardinality({ f \in UNION { draw[b] : b \in DOMAIN draw } : sig(f) })
            Reached == { p \in 1 .. Len(g.drawn) : permScore(g.drawn[p]) >= realScore }
        IN  /\ g.totalScore <= g.numPermutations
            /\ g.maxScore > 0 => g.totalScore <= g.maxScore
            /\ realScore >= 1 =>
                  /\ g.totalScore = Cardinality(Reached)
                  /\ \A p \in 1 .. Len(g.drawn) : \A b \in 1 .. 2 :
                        LET taken == IF b \in DOMAIN g.drawn[p] THEN g.drawn[p][b] ELSE {}
                        IN  /\ taken \subseteq g.binFeatures[b]
                            /\ Cardinality(taken) = Cardinality(real(b))
                  /\ Len(g.drawn) <= g.numPermutations
                  /\ Len(g.drawn) < g.numPermutations =>
                        /\ g.maxScore > 0 /\ g.totalScore = g.maxScore
                        /\ Len(g.drawn) \in Reached

\* C15 as the code has it: when the observed score is 0 the function draws
\* nothing and returns numPermutations, which is above maxScore whenever
\* numPermutations is; otherwise it returns the number of permutations made
\* whose score is >= the observed score, each permutation drawing from every
\* bin but bin 0, without replacement, exactly as many features as the real
\* feature set has in that bin, it stops at the permutation that brings the
\* count to maxScore, and with maxScore > 0 the count never exceeds
\* maxScore; the count never exceeds numPermutations.
C15_ScoreOfPermutations ==
    generated.op = "getPARISPermutationScore" =>
        LET g == generated
            sig(f) == g.featureData[f][2]
            real(b) == { f \in g.realFeatures : g.featureBin[f] = b }
            realScore == Cardinality({ f \in g.realFeatures : sig(f) })
            permScore(draw) == Cardinality({ f \in UNION { draw[b] : b \in DOMAIN draw } : sig(f) })
            Reached == { p \in 1 .. Len(g.drawn) : permScore(g.drawn[p]) >= realScore }
        IN  /\ g.totalScore <= g.numPermutations
            /\ realScore < 1 => g.totalScore = g.numPermutations /\ g.drawn = <<>>
            /\ realScore >= 1 =>
                  /\ g.maxScore > 0 => g.totalScore <= g.maxScore
                  /\ g.totalScore = Cardinality(Reached)
                  /\ \A p \in 1 .. Len(g.drawn) : \A b \in 1 .. 2 :
                        LET taken == IF b \in DOMAIN g.drawn[p] THEN g.drawn[p][b] ELSE {}
                        IN  /\ taken \subseteq g.binFeatures[b]
                            /\ Cardinality(taken) = Cardinality(real(b))
                  /\ \A p \in 1 .. Len(g.drawn) : 0 \notin DOMAIN g.drawn[p]
                  /\ Len(g.drawn) <= g.numPermutations
                  /\ Len(g.drawn) < g.numPermutations =>
                        /\ g.maxScore > 0 /\ g.totalScore = g.maxScore
                        /\ Len(g.drawn) \in Reached

\* C15 witness: the real features lie in bin 0 and in two further bins, one
\* of which holds more features than are drawn from it, and the count
\* reached maxScore before the last permutation
C15_Witness ==
    /\ generated.op = "getPARISPermutationScore"
    /\ \A b \in 0 .. 2 : \E f \in generated.realFeatures : generated.featureBin[f] = b
    /\ generated.maxScore > 0
    /\ generated.totalScore = generated.maxScore
    /\ Len(generated.drawn) \in 1 .. (generated.numPermutations - 1)

(***************************************************************************)
(* The knowledge database file of a Database instance (loki_db.py):        *)
(* attaching and detaching it, finalizing it, and the guard of the update  *)
(* entry points.  The file's `setting` rows 'finalized' and 'optimized'    *)
(* and its three intermediate tables are kept in loki, next to the         *)
(* instance's fields; the instance's testing mode is the file's.           *)
(***************************************************************************)

\* the intermediate tables that finalizeDatabase discards
Intermediate == {"snp_entrez_role", "biopolymer_name_name", "group_member_name"}

FinalizedError == "Exception: ERROR: cannot update a finalized database"

getNoDatabaseSetting(setting) == 0

\* Database.getDatabaseSetting(setting, int): the row's value, or int() when
\* the row is not there or no file is attached
getDatabaseSetting(setting) ==
    IF loki._dbFile # None THEN loki.setting[setting] ELSE 0

\* Database.attachDatabaseFile(dbFile, quiet): the file attached before is
\* detached, the new file's schema is established (a file without objects)
\* or audited with repair, and a file that fails the audit is detached again
attachDatabaseFile ==
    \E quiet \in BOOLEAN :
        LET _dbNew == \A t \in TblNames : dbMaster[t] = NoTable(t)
            res == [t \in TblNames |->
                       IF _dbNew
                       THEN [tbl |-> createDatabaseTables(t, dbMaster[t], TRUE), ok |-> TRUE]
                       ELSE AuditTable(t, dbMaster[t], TRUE, TRUE, TRUE)]
            ok == \A t \in TblNames : res[t].ok
        IN  /\ dbMaster' = [t \in TblNames |-> res[t].tbl]
            /\ audit' = IF _dbNew
                        THEN audit
                        ELSE [called |-> TRUE, pre |-> dbMaster, tblList |-> {},
                              doTables |-> TRUE, doIndecies |-> TRUE,
                              doRepair |-> TRUE, ok |-> ok]
            /\ loki' = [loki EXCEPT
                          !._dbFile = IF ok THEN <<"loki.db">> ELSE None,
                          !.call = [op      |-> "attachDatabaseFile",
                                    after   |-> loki.call.op,
                                    quiet   |-> quiet,
                                    ok      |-> ok,
                                    outcome |-> "returned",
                                    value   |-> None,
                                    logged  |-> IF quiet THEN None
                                                ELSE IF ok THEN <<"... OK\n">>
                                                ELSE <<"... ERROR (Audit of database failed)\n">>]]
            /\ UNCHANGED notDatabaseVars

\* Database.detachDatabaseFile(): attachDatabaseFile(None)
detachDatabaseFile ==
    /\ loki._dbFile # None
    /\ loki' = [loki EXCEPT !._dbFile = None,
                            !.call = [op |-> "detachDatabaseFile", after |-> loki.call.op,
                                      outcome |-> "returned"]]
    /\ UNCHANGED <<auditVars, notDatabaseVars>>

\* Database.finalizeDatabase() on the attached file
finalizeDatabase ==
    /\ loki._dbFile # None
    /\ loki' = [loki EXCEPT !.interim = {},
                            !.setting = [finalized |-> 1, optimized |-> 0],
                            !.call = [op |-> "finalizeDatabase", after |-> loki.call.op,
                                      outcome |-> "returned"]]
    /\ UNCHANGED <<auditVars, notDatabaseVars>>

\* Database.setDatabaseSetting(setting, value) on the attached file
setDatabaseSetting(setting, value) ==
    /\ loki._dbFile # None
    /\ loki' = [loki EXCEPT !.setting[setting] = value,
                            !.call = [op |-> "setDatabaseSetting", after |-> loki.call.op,
                                      outcome |-> "returned"]]
    /\ UNCHANGED <<auditVars, notDatabaseVars>>

\* Database.updateDatabase(...) on the attached file; the updater may leave
\* rows in any of the intermediate tables
updateDatabase ==
    /\ loki._dbFile # None
    /\ IF getDatabaseSetting("finalized") # 0
       THEN loki' = [loki EXCEPT !.call = [op |-> "updateDatabase", after |-> loki.call.op,
                                           outcome |-> FinalizedError]]
       ELSE \E filled \in SUBSET Intermediate :
                loki' = [loki EXCEPT !._updater = TRUE,
                                     !.interim = filled,
                                     !.call = [op |-> "updateDatabase", after |-> loki.call.op,
                                               outcome |-> "returned"]]
    /\ UNCHANGED <<auditVars, notDatabaseVars>>

\* Database.prepareTableForUpdate(table) on the attached file: handed to the
\* updater when there is one
prepareTableForUpdate ==
    /\ loki._dbFile # None
    /\ loki' = [loki EXCEPT !.call =
                  [op |-> "prepareTableForUpdate", after |-> loki.call.op,
                   outcome |-> IF getDatabaseSetting("finalized") # 0
                               THEN FinalizedError
                               ELSE IF loki._updater THEN "prepared" ELSE "returned"]]
    /\ UNCHANGED <<auditVars, notDatabaseVars>>

NextAttach ==
    \/ attachDatabaseFile
    \/ detachDatabaseFile

NextDatabase ==
    \/ attachDatabaseFile
    \/ detachDatabaseFile
    \/ finalizeDatabase
    \/ \E setting \in {"finalized", "optimized"}, value \in {0, 1} :
          setDatabaseSetting(setting, value)
    \/ updateDatabase
    \/ prepareTableForUpdate

\* C16: a completed finalizeDatabase leaves finalized = 1, optimized = 0 and
\* the three intermediate tables empty, and every updateDatabase or
\* prepareTableForUpdate call made while the attached file's finalized
\* setting is set ends with the finalized-database error and changes nothing
\* of the file or the instance
C16_FinalizedNeverUpdated ==
    [][ /\ (loki'.call.op = "finalizeDatabase" /\ loki' # loki)
           => /\ loki'.setting = [finalized |-> 1, optimized |-> 0]
              /\ loki'.interim = {}
        /\ (/\ loki'.call.op \in {"updateDatabase", "prepareTableForUpdate"}
            /\ loki'.call # loki.call
            /\ loki._dbFile # None
            /\ loki.setting.finalized = 1)
           => /\ loki'.call.outcome = FinalizedError
              /\ loki' = [loki EXCEPT !.call = loki'.call]
              /\ dbMaster' = dbMaster ]_vars

\* an update call turned down right after finalizeDatabase on a file that
\* had been updated
C16_Witness ==
    /\ loki.call.op \in {"updateDatabase", "prepareTableForUpdate"}
    /\ loki.call.after = "finalizeDatabase"
    /\ loki.call.outcome = FinalizedError
    /\ loki._updater
    /\ loki.interim = {}

\* C17: attaching a file that fails the schema audit leaves no file attached
\* and hands the caller an error that tells which table or index mismatched
C17_FailedAttachReturnsError ==
    (loki.call.op = "attachDatabaseFile" /\ ~loki.call.ok)
        => /\ loki._dbFile = None
           /\ \/ loki.call.outcome # "returned"
              \/ loki.call.value # None

(***************************************************************************)
(* Position and region input (biofilter.py 1323-1420): unionInputLoci and  *)
(* unionInputRegions on one connection.  An input row is its NOT NULL      *)
(* columns after the label, each None or a value; a stored row is the      *)
(* input row under its rowid.                                              *)
(***************************************************************************)

MaxInputRows == 2   \* rows in one input list
MaxInputCalls == 2  \* union calls in one session

\* (chr, pos) of an input locus
LocusValues == { <<chm, pos>> : chm \in {None, <<1>>}, pos \in {None, <<100>>} }

\* (chr, posMin, posMax) of an input region
RegionRowValues ==
    { <<chm, posMin, posMax>> :
        chm \in {None, <<1>>}, posMin \in {None, <<100>>}, posMax \in {None, <<200>>} }

\* the input lists of up to MaxInputRows rows
InputLists(values) == UNION { [1 .. n -> values] : n \in 0 .. MaxInputRows }

\* a row that INSERT OR IGNORE stores: no NOT NULL column is NULL
InsertableRow(row) == \A c \in 1 .. Len(row) : row[c] # None

\* SELECT LAST_INSERT_ROWID() after the INSERT OR IGNORE of one row: the rowid
\* of the connection's most recent successful INSERT, into whatever table
LAST_INSERT_ROWID(inserted, rowid, last_insert_rowid) ==
    IF inserted THEN rowid ELSE last_insert_rowid

RECURSIVE UnionInputRows(_, _, _, _, _)
\* the loop of unionInputLoci and unionInputRegions from row n of `rows` on;
\* st holds the table, its AUTOINCREMENT sequence, the connection's
\* last_insert_rowid and the loop's lastID, and what was counted and reported
UnionInputRows(st, table, rows, errorCallback, n) ==
    IF n > Len(rows) THEN [st EXCEPT !.outcome = "returned"]
    ELSE LET inserted == InsertableRow(rows[n])
             rowid    == st.seq[table] + 1
             row0     == LAST_INSERT_ROWID(inserted, rowid, st.last_insert_rowid)
             stored   == IF inserted
                         THEN [st EXCEPT !.rows[table] = @ \cup {[rowid |-> rowid, row |-> rows[n]]},
                                         !.seq[table] = rowid,
                                         !.last_insert_rowid = rowid,
                                         !.inserted = @ \cup {n}]
                         ELSE st
         IN  IF st.lastID # row0
             THEN UnionInputRows([stored EXCEPT !.numAdd = @ + 1, !.lastID = row0],
                                 table, rows, errorCallback, n + 1)
             ELSE IF errorCallback
                  \* "\t".join(row[1:]) over the columns of a row that holds
                  \* an integer or None
                  THEN [stored EXCEPT !.numNull = @ + 1,
                                      !.outcome = "TypeError: sequence item: expected str instance"]
                  ELSE UnionInputRows([stored EXCEPT !.numNull = @ + 1],
                                      table, rows, errorCallback, n + 1)

\* one call of unionInputLoci or unionInputRegions on the session `input`
UnionInput(table, rows, errorCallback) ==
    LET st  == [rows |-> input.rows, seq |-> input.seq,
                last_insert_rowid |-> input.last_insert_rowid,
                lastID |-> 0, numAdd |-> 0, numNull |-> 0, inserted |-> {},
                reported |-> {}, outcome |-> "running"]
        end == UnionInputRows(st, table, rows, errorCallback, 1)
    IN  [rows |-> end.rows, seq |-> end.seq,
         last_insert_rowid |-> end.last_insert_rowid,
         calls |-> input.calls + 1,
         call |-> [op |-> table, rows |-> rows, errorCallback |-> errorCallback,
                   pre |-> input.rows[table], inserted |-> end.inserted,
                   reported |-> end.reported, numAdd |-> end.numAdd,
                   numNull |-> end.numNull, outcome |-> end.outcome]]

\* Biofilter.unionInputLoci('main', loci, errorCallback)
unionInputLoci ==
    /\ input.calls < MaxInputCalls
    /\ \E loci \in InputLists(LocusValues), errorCallback \in BOOLEAN :
          input' = UnionInput("locus", loci, errorCallback)
    /\ UNCHANGED notInputVars

\* Biofilter.unionInputRegions('main', regions, errorCallback)
unionInputRegionsOrIgnore ==
    /\ input.calls < MaxInputCalls
    /\ \E regions \in InputLists(RegionRowValues), errorCallback \in BOOLEAN :
          input' = UnionInput("region", regions, errorCallback)
    /\ UNCHANGED notInputVars

\* Biofilter.generateMergedFilteredSNPs(snps, tally, errorCallback), read to
\* its end, as the first input of a session
tallyMergedFilteredSNPs ==
    /\ input.call.op = "none"
    /\ \E snps \in UNION { [1 .. n -> RSes] : n \in 0 .. MaxSnps } :
          LET genMerge == generateCurrentRSesByRSes(snp_merge, snps)
              genLocus == generateSNPLociByRSes(
                              [i \in 1 .. Len(genMerge) |-> <<genMerge[i][2], genMerge[i][1]>>],
                              0, 1)
              filtered == allow_ambiguous_snps # "yes"
          IN  input' = [input EXCEPT
                          !.calls = @ + 1,
                          !.call = [op |-> "snp", rows |-> snps,
                                    yielded |-> generateMergedFilteredSNPs(
                                                    snp_merge, allow_ambiguous_snps, snps),
                                    tallyLocus |-> IF filtered THEN genLocus.tally ELSE None,
                                    errors |-> IF filtered THEN genLocus.errors ELSE <<>>]]
    /\ UNCHANGED notInputVars

(***************************************************************************)
(* Metadata name lookup (loki_db.py 1598-1892)                             *)
(*                                                                         *)
(* A name is the sequence of its characters.  LOWER and TRIM are the       *)
(* SQLite functions of the lookup statements: LOWER folds the ASCII        *)
(* capitals, TRIM removes the spaces at either end.                        *)
(***************************************************************************)

MaxNameLen == 3  \* characters of a requested name
MaxNames == 2    \* names of one bulk lookup

NameChars == {"g", "G", " "}

LOWER(name) == [i \in 1 .. Len(name) |-> IF name[i] = "G" THEN "g" ELSE name[i]]

RECURSIVE TRIM(_)
TRIM(name) ==
    IF name = <<>> THEN name
    ELSE IF Head(name) = " " THEN TRIM(Tail(name))
    ELSE IF name[Len(name)] = " " THEN TRIM(SubSeq(name, 1, Len(name) - 1))
    ELSE name

\* the rows <<name, id>> of db.namespace and of db.ldprofile in the attached
\* knowledge file
namespace == {<<<<"g">>, 1>>, <<<<"g", "g">>, 2>>}

ldprofile == {<<<<"G">>, 1>>, <<<<"g", "G">>, 2>>}

MetadataNames == UNION { [1 .. n -> NameChars] : n \in 1 .. MaxNameLen }

\* the dictionary built from the rows of a LEFT JOIN of the requested names
\* to the rows of `matched` they are joined with: one key for each requested
\* name, None where the join found no row
LookupResult(names, matched) ==
    [n \in Range(names) |->
        IF matched[n] = {} THEN None
        ELSE <<CHOOSE id \in matched[n] : \A other \in matched[n] : other <= id>>]

\* Database.getNamespaceIDs(namespaces); getRelationshipIDs, getRoleIDs,
\* getSourceIDs, getTypeIDs and getSubtypeIDs run the same statement on their
\* own table:  ... ON n.namespace = LOWER(i.namespace)
getNamespaceIDs(namespaces) ==
    IF loki._dbFile = None THEN [n \in Range(namespaces) |-> None]
    ELSE LookupResult(namespaces,
             [n \in Range(namespaces) |->
                 {row[2] : row \in {r \in namespace : r[1] = LOWER(n)}}])

\* Database.getLDProfileIDs(ldprofiles):
\*   ... ON LOWER(TRIM(l.ldprofile)) = LOWER(TRIM(i.ldprofile))
getLDProfileIDs(ldprofiles) ==
    IF loki._dbFile = None THEN [n \in Range(ldprofiles) |-> None]
    ELSE LookupResult(ldprofiles,
             [n \in Range(ldprofiles) |->
                 {row[2] : row \in {r \in ldprofile :
                                       LOWER(TRIM(r[1])) = LOWER(TRIM(n))}}])

getNamespaceIDsCall ==
    /\ input.call.op = "none"
    /\ \E names \in UNION { [1 .. n -> MetadataNames] : n \in 1 .. MaxNames } :
          input' = [input EXCEPT
                      !.calls = @ + 1,
                      !.call = [op |-> "getNamespaceIDs", names |-> names,
                                table |-> namespace,
                                ret |-> getNamespaceIDs(names)]]
    /\ UNCHANGED notInputVars

getLDProfileIDsCall ==
    /\ input.call.op = "none"
    /\ \E names \in UNION { [1 .. n -> MetadataNames] : n \in 1 .. MaxNames } :
          input' = [input EXCEPT
                      !.calls = @ + 1,
                      !.call = [op |-> "getLDProfileIDs", names |-> names,
                                table |-> ldprofile,
                                ret |-> getLDProfileIDs(names)]]
    /\ UNCHANGED notInputVars

(***************************************************************************)
(* liftOver of position and region input (biofilter.py 988-1019,           *)
(* 1117-1148)                                                              *)
(***************************************************************************)

\* the builds a session knows: None when the user gave no --ucsc-build-version
\* or the knowledge file names none
UCSCBuilds == {None, <<18>>, <<19>>}

BuildsAlwaysDiffer(ucscBuildOld, ucscBuildNew) == TRUE

\* elif ucscBuildOld != ucscBuildNew (1009, 1138)
BuildsDiffer(ucscBuildOld, ucscBuildNew) == ucscBuildOld # ucscBuildNew

\* Biofilter.generateLiftOverLoci / generateLiftOverRegions: what is warned,
\* how the call ends and what it returns.  `conversions` are the (old, new)
\* pairs that have a row in db.chain.  The names oldHG and newHG of the
\* sys.exit argument are bound nowhere, so that line raises NameError before
\* sys.exit is called.  The generator of Database.generateLiftOver... is
\* returned without being started.
LiftOverInput(kind, ucscBuildOld, ucscBuildNew, stream, errorCallback, conversions) ==
    LET Call(warned, outcome, generator) ==
            [op |-> "liftOver", kind |-> kind,
             ucscBuildOld |-> ucscBuildOld, ucscBuildNew |-> ucscBuildNew,
             stream |-> stream, conversions |-> conversions,
             warned |-> warned, outcome |-> outcome,
             ret |-> IF outcome # "returned" THEN None
                     ELSE <<[generator |-> generator, stream |-> stream,
                             errorCallback |-> generator # "input" /\ errorCallback]>>]
    IN  IF ucscBuildOld = None
        THEN Call(<<"build of the " \o kind \o " input not specified">>,
                  "returned", "input")
        ELSE IF ucscBuildNew = None
        THEN Call(<<"build of the knowledge database not determined">>,
                  "returned", "input")
        ELSE IF BuildsDiffer(ucscBuildOld, ucscBuildNew)
        THEN IF <<ucscBuildOld[1], ucscBuildNew[1]>> \notin conversions
             THEN Call(<<>>, "NameError", "none")
             ELSE Call(<<>>, "returned", "liftOver")
        ELSE Call(<<>>, "returned", "input")

liftOverInputLoci ==
    /\ input.call.op = "none"
    /\ \E ucscBuildOld \in UCSCBuilds, ucscBuildNew \in UCSCBuilds,
          loci \in InputLists({v \in LocusValues : v[1] # None}),
          errorCallback \in BOOLEAN, conversions \in SUBSET {<<18, 19>>} :
          input' = [input EXCEPT
                      !.calls = @ + 1,
                      !.call = LiftOverInput("position", ucscBuildOld, ucscBuildNew,
                                             loci, errorCallback, conversions)]
    /\ UNCHANGED notInputVars

liftOverInputRegions ==
    /\ input.call.op = "none"
    /\ \E ucscBuildOld \in UCSCBuilds, ucscBuildNew \in UCSCBuilds,
          regions \in InputLists({v \in RegionRowValues : v[1] # None /\ v[2] # None}),
          errorCallback \in BOOLEAN, conversions \in SUBSET {<<18, 19>>} :
          input' = [input EXCEPT
                      !.calls = @ + 1,
                      !.call = LiftOverInput("region", ucscBuildOld, ucscBuildNew,
                                             regions, errorCallback, conversions)]
    /\ UNCHANGED notInputVars

\* the session after Biofilter.__init__: empty tables on a connection that
\* has inserted nothing
InputConstructed ==
    [rows |-> [t \in {"locus", "region"} |-> {}],
     seq |-> [t \in {"locus", "region"} |-> 0],
     last_insert_rowid |-> 0,
     calls |-> 0,
     call |-> [op |-> "none"]]

NextInput ==
    \/ unionInputLoci
    \/ unionInputRegionsOrIgnore
    \/ tallyMergedFilteredSNPs
    \/ getNamespaceIDsCall
    \/ getLDProfileIDsCall
    \/ liftOverInputLoci
    \/ liftOverInputRegions

\* C18: a union call with an invalid-input callback ends normally, with every
\* input row that has a null chromosome or position left out of the table and
\* reported, and every other input row stored and not reported, whatever was
\* inserted on the connection before
C18_NullRowsSkippedAndReported ==
    (input.call.op \in {"locus", "region"} /\ input.call.errorCallback) =>
        /\ input.call.outcome = "returned"
        /\ \A n \in 1 .. Len(input.call.rows) :
               IF InsertableRow(input.call.rows[n])
               THEN /\ n \in input.call.inserted
                    /\ \E r \in input.rows[input.call.op] \ input.call.pre :
                           r.row = input.call.rows[n]
                    /\ n \notin input.call.reported
               ELSE /\ n \notin input.call.inserted
                    /\ n \in input.call.reported

\* C19 (as stated): with ambiguous SNPs disallowed, every RS number that is
\* added has exactly one locus under its current RS number, every other one
\* is left out, and the tally counts as many with one locus as were added
C19_ExactlyOneLocus ==
    (input.call.op = "snp" /\ allow_ambiguous_snps = "no") =>
        LET g == generateCurrentRSesByRSes(snp_merge, input.call.rows)
            loci(i) == { l \in snp_locus : l[1] = g[i][2] }
        IN  /\ \A i \in 1 .. Len(g) :
                   g[i] \in Range(input.call.yielded) <=> Cardinality(loci(i)) = 1
            /\ input.call.tallyLocus.one = Len(input.call.yielded)

\* C19 (as the code has it): with ambiguous SNPs disallowed, the rows of the
\* merge step are taken in runs of adjacent equal rows; a run is added, once,
\* exactly if the lookup finds at most one locus for the whole run, and the
\* tally counts the runs with no, one and more loci; a run with more loci is
\* reported and left out
C19_AtMostOneLocus ==
    (input.call.op = "snp" /\ allow_ambiguous_snps = "no") =>
        LET g == generateCurrentRSesByRSes(snp_merge, input.call.rows)
            starts == { i \in 1 .. Len(g) : i = 1 \/ g[i] # g[i - 1] }
            run(i) == { j \in i .. Len(g) : \A k \in i .. j : g[k] = g[i] }
            found(i) == Cardinality(run(i)) * Cardinality({ l \in snp_locus : l[1] = g[i][2] })
            kept == { i \in starts : found(i) <= 1 }
            nth(k) == CHOOSE i \in kept : Cardinality({ j \in kept : j < i }) = k - 1
        IN  /\ Len(input.call.yielded) = Cardinality(kept)
            /\ \A k \in 1 .. Cardinality(kept) : input.call.yielded[k] = g[nth(k)]
            /\ input.call.tallyLocus =
                   [zero |-> Cardinality({ i \in starts : found(i) = 0 }),
                    one  |-> Cardinality({ i \in starts : found(i) = 1 }),
                    many |-> Cardinality({ i \in starts : found(i) > 1 })]
            /\ Len(input.call.errors) = input.call.tallyLocus.many

\* an input of an RS number with one locus, one with two and one with none:
\* the first and the last were added
C19_Witness ==
    /\ input.call.op = "snp" /\ allow_ambiguous_snps = "no"
    /\ input.call.tallyLocus = [zero |-> 1, one |-> 1, many |-> 1]
    /\ Len(input.call.yielded) = 2

C21_LookupIgnoresCaseAndWhitespace ==
    input.call.op \in {"getNamespaceIDs", "getLDProfileIDs"} =>
        /\ DOMAIN input.call.ret = Range(input.call.names)
        /\ \A n \in Range(input.call.names) :
              /\ input.call.ret[n] = None
                    \/ \E row \in input.call.table : input.call.ret[n] = <<row[2]>>
              /\ \A row \in input.call.table :
                    LOWER(TRIM(n)) = LOWER(TRIM(row[1])) => input.call.ret[n] = <<row[2]>>

\* C22 as stated: lifting from a build to the same build, with no chains for
\* that pair, returns the input stream unchanged and emits a warning
C22_SameBuildWarns ==
    /\ input.call.op = "liftOver"
    /\ input.call.ucscBuildOld # None
    /\ input.call.ucscBuildOld = input.call.ucscBuildNew
    /\ <<input.call.ucscBuildOld[1], input.call.ucscBuildNew[1]>> \notin input.call.conversions
    => /\ input.call.outcome = "returned"
       /\ input.call.ret = <<[generator |-> "input", stream |-> input.call.stream,
                              errorCallback |-> FALSE]>>
       /\ input.call.warned # <<>>

\* C22: lifting regions or loci from a build to the same build returns the
\* input stream itself, whatever chains the database holds, and emits neither
\* a warning nor an error; the input stream is also returned as it is, with
\* one warning, when either build is unknown
C22_SameBuildPassesSilently ==
    input.call.op = "liftOver" =>
        /\ /\ input.call.ucscBuildOld # None
           /\ input.call.ucscBuildOld = input.call.ucscBuildNew
           => /\ input.call.outcome = "returned"
              /\ input.call.ret = <<[generator |-> "input", stream |-> input.call.stream,
                                     errorCallback |-> FALSE]>>
              /\ input.call.warned = <<>>
        /\ input.call.ucscBuildOld = None \/ input.call.ucscBuildNew = None
           => /\ input.call.outcome = "returned"
              /\ input.call.ret = <<[generator |-> "input", stream |-> input.call.stream,
                                     errorCallback |-> FALSE]>>
              /\ Len(input.call.warned) = 1

C22_Witness ==
    /\ input.call.op = "liftOver"
    /\ input.call.kind = "region"
    /\ input.call.ucscBuildOld = <<19>>
    /\ input.call.ucscBuildNew = <<19>>
    /\ input.call.conversions = {}
    /\ input.call.stream # <<>>
    /\ input.call.ret # None
    /\ input.call.ret[1].generator = "input"

(***************************************************************************)
(* Specifications                                                          *)
(***************************************************************************)

\* the subsystems a specification does not exercise stay as constructed
AuditIdle ==
    /\ dbMaster = [t \in TblNames |-> createDatabaseTables(t, NoTable(t), TRUE)]
    /\ audit = [called |-> FALSE, pre |-> dbMaster, tblList |-> {},
                doTables |-> TRUE, doIndecies |-> TRUE, doRepair |-> TRUE,
                ok |-> TRUE]

\* a finalized and optimized knowledge file, attached
DatabaseConstructed ==
    [_dbFile  |-> <<"loki.db">>,
     _updater |-> FALSE,
     setting  |-> [finalized |-> 1, optimized |-> 1],
     interim  |-> {},
     call     |-> [op |-> "none"]]

DatabaseIdle == loki = DatabaseConstructed

InputIdle == input = InputConstructed

FilterIdle ==
    /\ snp_merge = {}
    /\ allow_ambiguous_snps = "no"
    /\ FilterConstructed

LiftIdle ==
    /\ liftChains = {}
    /\ python = 3
    /\ liftOpts = [tally |-> FALSE, errorCallback |-> FALSE]
    /\ LiftStarted

\* an attached file of any content, before any filter input
InitSpecAudit == InitAudit /\ FilterIdle /\ LiftIdle /\ MergeIdle /\ PlannerIdle /\ OutputIdle /\ DatabaseIdle /\ InputIdle

SpecAudit == InitSpecAudit /\ [][NextAudit]_vars

\* a fresh session on a knowledge database
InitSpecFilter == InitFilter /\ AuditIdle /\ LiftIdle /\ MergeIdle /\ PlannerIdle /\ OutputIdle /\ DatabaseIdle /\ InputIdle

SpecFilter == InitSpecFilter /\ [][NextFilter]_vars

\* a knowledge database with any of the chain tables, before any filter input
InitSpecLift == InitLift /\ AuditIdle /\ FilterIdle /\ MergeIdle /\ PlannerIdle /\ OutputIdle /\ DatabaseIdle /\ InputIdle

SpecLift == InitSpecLift /\ [][NextLift]_vars

\* the same with a chain of two segments and a chain cut short among the
\* chain tables
InitSpecLiftChains == InitLiftChains /\ AuditIdle /\ FilterIdle /\ MergeIdle /\ PlannerIdle /\ OutputIdle /\ DatabaseIdle /\ InputIdle

SpecLiftChains == InitSpecLiftChains /\ [][NextLiftChains]_vars

\* a knowledge database with any acyclic merge history, before any input
InitSpecMerge == InitMerge /\ AuditIdle /\ LiftIdle /\ PlannerIdle /\ OutputIdle /\ DatabaseIdle /\ InputIdle

SpecMerge == InitSpecMerge /\ [][NextMerge]_vars

\* a knowledge database with a merge history of two steps, before any input
InitSpecMergeChain == InitMergeChain /\ AuditIdle /\ LiftIdle /\ PlannerIdle /\ OutputIdle /\ DatabaseIdle /\ InputIdle

SpecMergeChain == InitSpecMergeChain /\ [][generateCurrentRSesByRSesExtra]_vars

\* a session with any of SNP input, alternate SNP input and user-defined
\* knowledge loaded, under either interpreter, before any query
InitSpecPlanner ==
    /\ InitPlanner /\ AuditIdle /\ FilterIdle /\ MergeIdle /\ OutputIdle /\ DatabaseIdle /\ InputIdle
    /\ liftChains = {}
    /\ liftOpts = [tally |-> FALSE, errorCallback |-> FALSE]
    /\ LiftStarted

SpecPlanner == InitSpecPlanner /\ [][NextPlanner]_vars

SpecPlannerColumns == InitSpecPlanner /\ [][NextPlannerColumns]_vars

\* a session whose queries can give any results, under either interpreter,
\* before any output
InitSpecOutput ==
    /\ OutputIdle /\ AuditIdle /\ FilterIdle /\ MergeIdle /\ PlannerIdle /\ DatabaseIdle /\ InputIdle
    /\ python \in {2, 3}
    /\ liftChains = {}
    /\ liftOpts = [tally |-> FALSE, errorCallback |-> FALSE]
    /\ LiftStarted

SpecOutput == InitSpecOutput /\ [][NextOutput]_vars

\* a schema-conformant file attached for updating, finalized or not and
\* optimized or not, with or without intermediate data
InitSpecDatabase ==
    /\ AuditIdle /\ FilterIdle /\ LiftIdle /\ MergeIdle /\ PlannerIdle /\ OutputIdle
    /\ InputIdle
    /\ loki \in [_dbFile  : {<<"loki.db">>},
                 _updater : {FALSE},
                 setting  : [finalized : {0, 1}, optimized : {0, 1}],
                 interim  : SUBSET Intermediate,
                 call     : {[op |-> "none"]}]

SpecDatabase == InitSpecDatabase /\ [][NextDatabase]_vars

\* a file of any content, about to be attached
InitSpecAttach ==
    /\ InitAudit /\ FilterIdle /\ LiftIdle /\ MergeIdle /\ PlannerIdle /\ OutputIdle
    /\ InputIdle
    /\ loki = [DatabaseConstructed EXCEPT !._dbFile = None]

SpecAttach == InitSpecAttach /\ [][NextAttach]_vars

\* a fresh session on a knowledge database, before any input
InitSpecInput ==
    /\ InputIdle /\ InitFilter /\ AuditIdle /\ LiftIdle /\ MergeIdle /\ PlannerIdle
    /\ OutputIdle /\ DatabaseIdle

SpecInput == InitSpecInput /\ [][NextInput]_vars

====
